---- MODULE Spec2Model ----
(***************************************************************************)
(* A model of github.com/augustoroman/sandwich:                            *)
(*   - package chain: construction of a Func chain (Arg, Set, SetAs, Then, *)
(*     OnErr, Defer) and its execution by Run / processRunArgs / call /    *)
(*     wrapPanic;                                                          *)
(*   - the PAT-style mux of the sandwich router: Register and Match.       *)
(* Spec is the chain engine, SpecRouter the route tree.                    *)
(***************************************************************************)
EXTENDS Integers, Sequences, FiniteSets, TLC

VARIABLES
    steps,       \* chain.Func.steps of the chain under construction / being run
    rejected,    \* TRUE iff the last construction call panicked (panicf)
    pc,          \* position of Run: "build", "loop", "errphase", "defers", "returned", "panicked"
    argValues,   \* the argValues Run was called with
    idx,         \* Run: index of the next step of `for _, step := range c.steps`
    data,        \* Run: data map[reflect.Type]reflect.Value
    postSteps,   \* Run: postSteps (indices into steps)
    errHandler,  \* Run: errHandler (index into steps, 0 = DefaultErrorHandler)
    stack,       \* Run: stack (indices into steps, 0 = DefaultErrorHandler)
    dpos,        \* Run: i of `for i := len(postSteps) - 1; i >= 0; i--` (1-based)
    ret,         \* what Run returned: "none", "nil", "error", or "panic" (escaped)
    calls,       \* history: one record per s.val.Call(in) made by call
    tree,        \* the root *mux of the router's route tree
    registered,  \* history: the patterns Register accepted; handler h is registered[h]
    lastReg,     \* result of the last call if it was Register: "ok", "err"; else "none"
    uri,         \* req.URL.Path of the last ServeHTTP call
    matched,     \* what its mux.Match returned: handler id, 0 = nil, -1 = runtime panic
    params,      \* the Params map after that call
    status,      \* its outcome: "none", "served", "404", "panic"
    routers,     \* the *router values allocated; routers[1] is the root Router
    routes,      \* history: the routes router.On registered; handler h is routes[h]
    called,      \* the last call made on a Router and how it ended
    request,     \* req.Method and req.URL.Path of the last request to the root Router
    response,    \* what router.match returned for it, the Params map, the outcome
    arrays,      \* the backing arrays allocated for []step slices
    funcs,       \* the chain.Func values made: funcs[1] is chain.Func{}
    recv,        \* the Func the current Run was called on (0: the chain in steps)
    other,       \* the locals of the other Run of the chain (a second goroutine,
                 \* or the Run before this one)
    rw,          \* a *ResponseWriter: its fields Code and Size
    wire         \* the calls its embedded http.ResponseWriter received, with results

chainVars  == <<steps, rejected, pc, argValues, idx, data, postSteps, errHandler,
                stack, dpos, ret, calls>>
siteVars   == <<routers, routes, called, request, response>>
moreVars   == <<arrays, funcs, recv, other, rw, wire>>
routerVars == <<tree, registered, lastReg, uri, matched, params, status, siteVars, moreVars>>
vars       == <<steps, rejected, pc, argValues, idx, data, postSteps, errHandler,
                stack, dpos, ret, calls, tree, registered, lastReg, uri, matched,
                params, status, routers, routes, called, request, response,
                arrays, funcs, recv, other, rw, wire>>

(***************************************************************************)
(* Bounds of the model.                                                    *)
(***************************************************************************)
MaxSteps   == 3    \* longest chain built
MaxThen    == 2    \* most handlers passed to one Then(...) call
MaxRunArgs == 2    \* most arguments passed to Run

(***************************************************************************)
(* reflect.Type: opaque type handles.  "A" and "B" are concrete types, "E" *)
(* is a concrete type implementing error, "error" is the error interface,  *)
(* "P" is a pointer to a struct, "C" a concrete type whose values         *)
(* convert to "A" (as int32 to int).                                       *)
(***************************************************************************)
errorType == "error"
\* The types of a request served by a Router are http.ResponseWriter,
\* *http.Request, Params, and *ResponseWriter and *LogEntry of TheUsual.
TypeSet   == {"A", "B", "C", "E", "P", "error",
              "http.ResponseWriter", "*http.Request", "Params",
              "*ResponseWriter", "*LogEntry"}

IsInterface(t) == t = "error"
IsPointer(t)   == t = "P"

\* reflect.Type.Implements: the interface itself and the concrete type E.
Implements(t, iface) == IsInterface(iface) /\ t \in {"E", iface}

(***************************************************************************)
(* reflect.Value.  k is what the value is: "invalid" (the zero Value),     *)
(* "nil" (a nil interface), "imm" (an immediate value of a Set/SetAs       *)
(* step), "arg" (an argument of Run), "out" (a non-error output of a       *)
(* handler), "err" (a non-nil error returned by a handler), "panic" (a     *)
(* PanicError).  rt is Value.Type(), by the step (or argument position)    *)
(* the value comes from, pv the panicked value and mw the MiddlewareStack  *)
(* of a PanicError.                                                        *)
(***************************************************************************)
Value(k, rt, by) == [k |-> k, rt |-> rt, by |-> by, pv |-> 0, mw |-> <<>>]
Invalid          == Value("invalid", "", 0)
Zero(t)          == Value("nil", t, 0)

IsValid(v) == v.k # "invalid"
IsNil(v)   == v.k = "nil"

(***************************************************************************)
(* The functions handed to Then / OnErr / Defer, by signature              *)
(* (reflect.Type of the func: In(i), Out(i)).                              *)
(***************************************************************************)
Sig(fn) ==
    CASE fn = "say"      -> [in |-> <<>>,             out |-> <<>>]
      [] fn = "mkA"      -> [in |-> <<>>,             out |-> <<"A", "error">>]
      [] fn = "AtoB"     -> [in |-> <<"A">>,          out |-> <<"B">>]
      [] fn = "fail"     -> [in |-> <<>>,             out |-> <<"error">>]
      [] fn = "useErr"   -> [in |-> <<"error">>,      out |-> <<>>]
      [] fn = "useAErr"  -> [in |-> <<"A", "error">>, out |-> <<>>]
      [] fn = "useE"     -> [in |-> <<"E">>,          out |-> <<>>]
      [] fn = "useP"     -> [in |-> <<"P">>,          out |-> <<>>]
      [] fn = "useA"     -> [in |-> <<"A">>,          out |-> <<>>]
      [] fn = "done"     -> [in |-> <<>>,             out |-> <<"error">>]
      [] fn = "failE"    -> [in |-> <<>>,             out |-> <<"error">>]
      [] fn = "HandleError"     -> [in |-> <<"error">>, out |-> <<>>]
      [] fn = "HandleErrorJson" -> [in |-> <<"error">>, out |-> <<>>]
      [] fn = "DefaultErrorHandler" -> [in |-> <<"error">>, out |-> <<>>]
      [] fn = "WrapResponseWriter"  -> [in  |-> <<"http.ResponseWriter">>,
                                        out |-> <<"http.ResponseWriter", "*ResponseWriter">>]
      [] fn = "NewLogEntry" -> [in |-> <<"*http.Request">>, out |-> <<"*LogEntry">>]
      [] fn = "Commit"      -> [in |-> <<"*LogEntry", "*ResponseWriter">>, out |-> <<>>]
      [] fn = "sendMsg"     -> [in |-> <<"http.ResponseWriter">>, out |-> <<>>]
      [] fn = "nextA"       -> [in |-> <<"A">>, out |-> <<"A">>]
      [] OTHER           -> [in |-> <<>>,             out |-> <<>>]

\* What valueOfFunction accepts: "notAFunc" stands for 5, Struct{} or nil,
\* NilHandler for the nil interface value where the caller tells it apart.
Funcs      == {"say", "mkA", "fail", "AtoB", "useErr", "useAErr"}
Handlers   == Funcs \cup {"notAFunc"}
NilHandler == "nilHandler"

\* What recover() returns in call's deferred function after the called
\* function panicked.  PanicNil is panic(nil): the module is built at language
\* version go 1.17, where recover() then returns nil, as it does when there
\* was no panic.  DefaultPanicVal is the error DefaultErrorHandler panics
\* with.
PanicNil        == 0
DefaultPanicVal == 2
PanicVals       == {PanicNil, 1}

(***************************************************************************)
(* chain.step                                                              *)
(***************************************************************************)
Step(typ, fn, valTyp, val) == [typ |-> typ, fn |-> fn, valTyp |-> valTyp, val |-> val]

Range(s) == {s[i] : i \in DOMAIN s}

\* chain.go:166 typesAvailable
typesAvailable(c) ==
    UNION {
        CASE c[i].typ = "ARG"   -> {c[i].valTyp}
          [] c[i].typ = "VALUE" -> {c[i].val.rt, c[i].valTyp}
          [] c[i].typ = "PRE"   -> Range(Sig(c[i].fn).out)
          [] OTHER              -> {}
        : i \in DOMAIN c }

\* codegen_test.go:272 valueOfFunction: nil error iff the handler is a func
valueOfFunction(handler) == handler \notin {"notAFunc", NilHandler}

\* codegen_test.go:285 checkCanCall: nil error iff every In(i) is available
checkCanCall(available, fn) == \A i \in DOMAIN Sig(fn).in : Sig(fn).in[i] \in available

\* chain.go:188 Then: ok is FALSE iff Then panics, steps are the steps it adds
RECURSIVE ThenSteps(_, _)
RECURSIVE ThenStepsSameAvailable(_, _)

\* Then without `available[fnType.Out(i)] = true`: the outputs of a handler
\* are not available to the handlers after it in the same call
ThenStepsSameAvailable(available, handlers) ==
    IF handlers = <<>> THEN [ok |-> TRUE, steps |-> <<>>]
    ELSE LET h == Head(handlers) IN
         IF ~valueOfFunction(h) \/ ~checkCanCall(available, h)
         THEN [ok |-> FALSE, steps |-> <<>>]
         ELSE LET rest == ThenStepsSameAvailable(available, Tail(handlers)) IN
              [ok |-> rest.ok, steps |-> <<Step("PRE", h, "func", Invalid)>> \o rest.steps]

ThenSteps(available, handlers) ==
    IF handlers = <<>> THEN [ok |-> TRUE, steps |-> <<>>]
    ELSE LET h == Head(handlers) IN
         IF ~valueOfFunction(h) \/ ~checkCanCall(available, h)
         THEN [ok |-> FALSE, steps |-> <<>>]
         ELSE LET rest == ThenSteps(available \cup Range(Sig(h).out), Tail(handlers)) IN
              [ok |-> rest.ok, steps |-> <<Step("PRE", h, "func", Invalid)>> \o rest.steps]

\* The checks of OnErr and Defer without `fnType.NumOut() > 0`
CanAddHandlerAnyOut(c, h) ==
    /\ valueOfFunction(h)
    /\ checkCanCall(typesAvailable(c) \cup {errorType}, h)

\* chain.go:210 OnErr and chain.go:232 Defer accept the handler
CanAddHandler(c, h) ==
    /\ valueOfFunction(h)
    /\ checkCanCall(typesAvailable(c) \cup {errorType}, h)
    /\ Len(Sig(h).out) = 0

(***************************************************************************)
(* Construction: every operation returns a new Func (c.with), or panics.   *)
(***************************************************************************)
\* chain.go:114 with
with(c, more) == c \o more

\* The reflect.Type of the argument of Arg: a plain type or a pointer to an
\* interface.
ArgInputs == {"A", "*error"}
IsPtrToInterface(t) == t = "*error"
Elem(t) == IF t = "*error" THEN "error" ELSE t

\* The values handed to Set / SetAs: nil, a value of type A, a value of type E.
SetInputs == {"nil", "A", "E"}
\* The ifacePtr arguments handed to SetAs.
IfacePtrInputs == {"*error", "A"}

Building == pc = "build" /\ Len(steps) < MaxSteps

Built(c) ==
    /\ steps' = c
    /\ rejected' = FALSE
    /\ UNCHANGED <<pc, argValues, idx, data, postSteps, errHandler, stack, dpos, ret, calls>>
    /\ UNCHANGED routerVars

Panicked ==
    /\ rejected' = TRUE
    /\ UNCHANGED <<steps, pc, argValues, idx, data, postSteps, errHandler, stack, dpos, ret, calls>>
    /\ UNCHANGED routerVars

\* chain.go:125 Arg
Arg(typeOrInterfacePtr) ==
    /\ Building
    /\ LET typ == IF IsPtrToInterface(typeOrInterfacePtr)
                  THEN Elem(typeOrInterfacePtr) ELSE typeOrInterfacePtr
       IN Built(with(steps, <<Step("ARG", "", typ, Invalid)>>))

\* chain.go:135 Set
Set(value) ==
    /\ Building
    /\ IF value = "nil" THEN Panicked
       ELSE Built(with(steps,
                <<Step("VALUE", "", value, Value("imm", value, Len(steps) + 1))>>))

\* chain.go:144 SetAs
SetAs(value, ifacePtr) ==
    /\ Building
    /\ IF ~IsPtrToInterface(ifacePtr) THEN Panicked
       ELSE LET typ == Elem(ifacePtr)
                val == IF value = "nil" THEN Zero(typ)
                       ELSE Value("imm", value, Len(steps) + 1)
            IN IF ~Implements(val.rt, typ) THEN Panicked
               ELSE Built(with(steps, <<Step("VALUE", "", typ, val)>>))

\* chain.go:188 Then
Then(handlers) ==
    /\ Building
    /\ Len(steps) + Len(handlers) <= MaxSteps
    /\ LET r == ThenSteps(typesAvailable(steps), handlers)
       IN IF r.ok THEN Built(with(steps, r.steps)) ELSE Panicked

\* chain.go:210 OnErr
OnErr(errorHandler) ==
    /\ Building
    /\ IF CanAddHandler(steps, errorHandler)
       THEN Built(with(steps, <<Step("ERR", errorHandler, "func", Invalid)>>))
       ELSE Panicked

\* chain.go:232 Defer
Defer(handler) ==
    /\ Building
    /\ IF CanAddHandler(steps, handler)
       THEN Built(with(steps, <<Step("POST", handler, "func", Invalid)>>))
       ELSE Panicked

(***************************************************************************)
(* Run                                                                     *)
(***************************************************************************)
NoData == [t \in TypeSet |-> Invalid]

\* The arguments handed to Run: nil, or a value of a concrete type.
ArgValueInputs == {"nil", "A", "E"}

\* A test that lets every non-nil argument through
CanConvertAny(rt, typ) == TRUE

\* reflect.Value.CanConvert, for the types of the model
CanConvert(rt, typ) == rt = typ \/ Implements(rt, typ) \/ (rt = "C" /\ typ = "A")

\* A check that lets nil through for interface types only
NilableInterface(t) == IsInterface(t)

\* reflect.Kind of a declared Arg type is Interface or Ptr
NilableKind(t) == IsInterface(t) \/ IsPointer(t)

\* chain.go:323 processRunArgs, from step i on.  err is TRUE iff it returns
\* a non-nil error.
RECURSIVE processRunArgs(_, _, _, _, _, _)
RECURSIVE processRunArgsNoCount(_, _, _, _, _, _)

\* processRunArgs without `if argIndex != len(argValues)`: arguments beyond
\* the declared ones are ignored
processRunArgsNoCount(c, i, d, args, argIndex, missing) ==
    IF i > Len(c)
    THEN [err |-> missing > 0, data |-> d]
    ELSE IF c[i].typ # "ARG" THEN processRunArgsNoCount(c, i + 1, d, args, argIndex, missing)
    ELSE IF argIndex >= Len(args)
         THEN processRunArgsNoCount(c, i + 1, d, args, argIndex, missing + 1)
    ELSE LET val == args[argIndex + 1]
             typ == c[i].valTyp
         IN IF val = "nil"
            THEN IF NilableKind(typ)
                 THEN processRunArgsNoCount(c, i + 1, [d EXCEPT ![typ] = Zero(typ)],
                                            args, argIndex + 1, missing)
                 ELSE [err |-> TRUE, data |-> d]
            ELSE IF ~CanConvert(val, typ) THEN [err |-> TRUE, data |-> d]
            ELSE processRunArgsNoCount(c, i + 1,
                                       [d EXCEPT ![typ] = Value("arg", typ, argIndex + 1)],
                                       args, argIndex + 1, missing)

processRunArgs(c, i, d, args, argIndex, missing) ==
    IF i > Len(c)
    THEN [err |-> (missing > 0) \/ (argIndex # Len(args)), data |-> d]
    ELSE IF c[i].typ # "ARG" THEN processRunArgs(c, i + 1, d, args, argIndex, missing)
    ELSE IF argIndex >= Len(args) THEN processRunArgs(c, i + 1, d, args, argIndex, missing + 1)
    ELSE LET val == args[argIndex + 1]
             typ == c[i].valTyp
         IN IF val = "nil"
            THEN IF NilableKind(typ)
                 THEN processRunArgs(c, i + 1, [d EXCEPT ![typ] = Zero(typ)],
                                     args, argIndex + 1, missing)
                 ELSE [err |-> TRUE, data |-> d]
            ELSE IF ~CanConvert(val, typ) THEN [err |-> TRUE, data |-> d]
            ELSE processRunArgs(c, i + 1,
                                [d EXCEPT ![typ] = Value("arg", typ, argIndex + 1)],
                                args, argIndex + 1, missing)

\* The step a stack / errHandler index stands for (0: the default handler,
\* chain.go:271).
StepAt(c, i) == IF i = 0 THEN Step("ERR", "DefaultErrorHandler", "func", Invalid) ELSE c[i]

Reverse(s) == [i \in 1..Len(s) |-> s[Len(s) + 1 - i]]

\* chain.go:392 wrapPanic: nil for x == nil, else the PanicError for the
\* recovered value x
wrapPanic(x, stk) ==
    IF x = PanicNil THEN Zero(errorType)
    ELSE [k |-> "panic", rt |-> errorType, by |-> stk[Len(stk)], pv |-> x,
          mw |-> Reverse(stk)]

\* The values s.val.Call(in) returns when the function at step i returns:
\* res = "ok" (any error output is nil) or "err" (its error output is not).
OutValue(i, t, res) ==
    IF t = errorType
    THEN IF res = "err" THEN Value("err", errorType, i) ELSE Zero(errorType)
    ELSE Value("out", t, i)

\* chain.go:387 `for _, val := range out { data[val.Type()] = val }`
RECURSIVE BindOut(_, _, _, _, _)
BindOut(d, i, out, n, res) ==
    IF n > Len(out) THEN d
    ELSE BindOut([d EXCEPT ![out[n]] = OutValue(i, out[n], res)], i, out, n + 1, res)

\* What the function of a step may do when called: return ("ok"), return a
\* non-nil error ("err", if it has an error output), or panic; pv is what
\* recover() then returns.  The default error handler is
\* func(err error) { panic(err) } (chain.go:85).
Outcomes(fn) ==
    IF fn = "DefaultErrorHandler" THEN {[res |-> "panic", pv |-> DefaultPanicVal]}
    ELSE IF fn = "done" THEN {[res |-> "err", pv |-> 0]}
    ELSE IF fn \in {"HandleError", "HandleErrorJson"} THEN {[res |-> "ok", pv |-> 0]}
    ELSE IF fn \in {"WrapResponseWriter", "NewLogEntry", "Commit"}
    THEN {[res |-> "ok", pv |-> 0]}
    ELSE {[res |-> "ok", pv |-> 0]}
         \cup (IF errorType \in Range(Sig(fn).out) THEN {[res |-> "err", pv |-> 0]} ELSE {})
         \cup {[res |-> "panic", pv |-> x] : x \in PanicVals}

\* chain.go:368 call of step i, whose function behaves as o says.  escapes is
\* TRUE iff call itself panics: the "Cannot inject" panicf, raised before the
\* deferred recover is installed.  A panic of the function is recovered and
\* becomes the error binding.
\* call without its deferred recover: a panic of the called function leaves
\* call, and Run, as a panic
callNoRecover(c, i, d, stk, o) ==
    LET s   == StepAt(c, i)
        t   == Sig(s.fn)
        in  == [n \in DOMAIN t.in |-> d[t.in[n]]]
    IN IF (\E n \in DOMAIN in : ~IsValid(in[n])) \/ o.res = "panic"
       THEN [escapes |-> TRUE, data |-> d, stack |-> stk, in |-> in]
       ELSE [escapes |-> FALSE, data |-> BindOut(d, i, t.out, 1, o.res),
             stack |-> Append(stk, i), in |-> in]

call(c, i, d, stk, o) ==
    LET s   == StepAt(c, i)
        t   == Sig(s.fn)
        in  == [n \in DOMAIN t.in |-> d[t.in[n]]]
        stk2 == Append(stk, i)
    IN IF \E n \in DOMAIN in : ~IsValid(in[n])
       THEN [escapes |-> TRUE, data |-> d, stack |-> stk, in |-> in]
       ELSE [escapes |-> FALSE,
             data   |-> IF o.res = "panic"
                        THEN IF IsNil(wrapPanic(o.pv, stk2)) THEN d
                             ELSE [d EXCEPT ![errorType] = wrapPanic(o.pv, stk2)]
                        ELSE BindOut(d, i, t.out, 1, o.res),
             stack  |-> stk2,
             in     |-> in]

\* chain.go:298 / 309 `errorVal.IsValid() && !errorVal.IsNil()`
HasError(d) == IsValid(d[errorType]) /\ ~IsNil(d[errorType])

CallRec(i, phase, r, o) == [s |-> i, phase |-> phase, in |-> r.in, res |-> o.res, pv |-> o.pv]

\* chain.go:268-282 Run: the locals and processRunArgs
NumArgs(c) == Cardinality({i \in DOMAIN c : c[i].typ = "ARG"})

RunBegin(args) ==
    /\ pc = "build"
    /\ Len(args) <= NumArgs(steps) + 1
    /\ LET r == processRunArgs(steps, 1, NoData, args, 0, 0)
       IN /\ argValues' = args
          /\ rejected' = FALSE
          /\ data' = r.data
          /\ IF r.err
             THEN pc' = "returned" /\ ret' = "error"
             ELSE pc' = (IF Len(steps) = 0 THEN "errphase" ELSE "loop") /\ ret' = "none"
          /\ idx' = 1
          /\ postSteps' = <<>>
          /\ errHandler' = 0
          /\ stack' = <<>>
          /\ dpos' = 0
          /\ calls' = <<>>
          /\ UNCHANGED steps
    /\ UNCHANGED routerVars

\* After the loop body for step idx: `break execution` (chain.go:298-300),
\* or the next step, or the end of the loop
LoopNext(broke) ==
    /\ idx' = idx + 1
    /\ pc' = IF broke \/ idx = Len(steps) THEN "errphase" ELSE "loop"

\* A tVALUE step that leaves an existing binding of its type alone
BindValueOnce(d, step) ==
    IF IsValid(d[step.valTyp]) THEN d
    ELSE [d EXCEPT ![step.val.rt] = step.val, ![step.valTyp] = step.val]

\* chain.go:292-294 case tVALUE
BindValue(d, step) == [d EXCEPT ![step.val.rt] = step.val, ![step.valTyp] = step.val]

\* chain.go:303-304 case tERROR_HANDLER: errHandler = step
NextErrHandler(cur, i) == i

\* chain.go:316 the deferred handlers are called from the last collected
\* one down to the first
FirstDefer(posts) == Len(posts)
NextDefer(i, posts) == i - 1
DefersDone(i, posts) == i < 1

\* chain.go:288-306 one iteration of `for _, step := range c.steps`,
\* for a step that is not a handler to call
RunStep ==
    /\ pc = "loop"
    /\ steps[idx].typ # "PRE"
    /\ LET step == steps[idx] IN
       /\ data' = IF step.typ = "VALUE" THEN BindValue(data, step) ELSE data
       /\ postSteps' = IF step.typ = "POST" THEN Append(postSteps, idx) ELSE postSteps
       /\ errHandler' = IF step.typ = "ERR" THEN NextErrHandler(errHandler, idx)
                        ELSE errHandler
    /\ LoopNext(FALSE)
    /\ UNCHANGED <<steps, rejected, argValues, stack, dpos, ret, calls>>
    /\ UNCHANGED routerVars

\* Run panics out of call ("Cannot inject")
Escapes ==
    /\ pc' = "panicked"
    /\ ret' = "panic"
    /\ UNCHANGED <<steps, rejected, argValues, idx, data, postSteps, errHandler, stack,
                   dpos, calls>>

\* chain.go:295-300 the iteration for a tPRE_HANDLER step
RunPre(o) ==
    /\ pc = "loop"
    /\ steps[idx].typ = "PRE"
    /\ o \in Outcomes(steps[idx].fn)
    /\ LET r == call(steps, idx, data, stack, o) IN
       IF r.escapes THEN Escapes
       ELSE /\ data' = r.data
            /\ stack' = r.stack
            /\ calls' = Append(calls, CallRec(idx, "pre", r, o))
            /\ LoopNext(HasError(r.data))
            /\ UNCHANGED <<steps, rejected, argValues, postSteps, errHandler, dpos, ret>>
    /\ UNCHANGED routerVars

\* chain.go:308-313 the error handler, or the nil error for the defers
Returns ==
    /\ pc' = "returned"
    /\ ret' = "nil"

RunErrPhase(o) ==
    /\ pc = "errphase"
    /\ IF HasError(data)
       THEN /\ o \in Outcomes(StepAt(steps, errHandler).fn)
            /\ LET r == call(steps, errHandler, data, stack, o) IN
               IF r.escapes THEN Escapes
               ELSE /\ data' = r.data
                    /\ stack' = r.stack
                    /\ calls' = Append(calls, CallRec(errHandler, "err", r, o))
                    /\ dpos' = FirstDefer(postSteps)
                    /\ IF DefersDone(FirstDefer(postSteps), postSteps) THEN Returns
                       ELSE pc' = "defers" /\ UNCHANGED ret
                    /\ UNCHANGED <<steps, rejected, argValues, idx, postSteps, errHandler>>
       ELSE /\ o = [res |-> "ok", pv |-> 0]
            /\ data' = [data EXCEPT ![errorType] = Zero(errorType)]
            /\ dpos' = FirstDefer(postSteps)
            /\ IF DefersDone(FirstDefer(postSteps), postSteps) THEN Returns
               ELSE pc' = "defers" /\ UNCHANGED ret
            /\ UNCHANGED <<steps, rejected, argValues, idx, postSteps, errHandler, stack, calls>>
    /\ UNCHANGED routerVars

\* chain.go:316-320 one deferred call, and `return nil` after the last
RunDefer(o) ==
    /\ pc = "defers"
    /\ o \in Outcomes(steps[postSteps[dpos]].fn)
    /\ LET r == call(steps, postSteps[dpos], data, stack, o) IN
       IF r.escapes THEN Escapes
       ELSE /\ data' = r.data
            /\ stack' = r.stack
            /\ calls' = Append(calls, CallRec(postSteps[dpos], "post", r, o))
            /\ dpos' = NextDefer(dpos, postSteps)
            /\ IF DefersDone(NextDefer(dpos, postSteps), postSteps) THEN Returns
               ELSE UNCHANGED <<pc, ret>>
            /\ UNCHANGED <<steps, rejected, argValues, idx, postSteps, errHandler>>
    /\ UNCHANGED routerVars

(***************************************************************************)
(* Two calls of Run on one chain.  The variables pc .. calls are the       *)
(* locals of the call that takes the next step; `other` holds the locals   *)
(* of the second call, which is suspended (another goroutine) or has       *)
(* ended (the Run before this one).                                        *)
(***************************************************************************)
\* chain.go:268-276 the receiver and the locals of one call of Run, and how
\* far it has got
RunLocals ==
    [steps |-> steps, recv |-> recv, pc |-> pc, argValues |-> argValues, idx |-> idx,
     data |-> data, postSteps |-> postSteps, errHandler |-> errHandler, stack |-> stack,
     dpos |-> dpos, ret |-> ret, calls |-> calls]

\* One data map for all calls of Run: a call goes on with the map the call
\* before it has written to
SharedData(mine, theirs) == theirs

\* chain.go:269 `data := map[reflect.Type]reflect.Value{}` is made in Run:
\* a call goes on with its own map, whatever the other call has done
OwnData(mine, theirs) == mine

\* chain.go:268-282 a call of Run on chain c starts: its locals, and
\* processRunArgs
Begun(c, args) ==
    LET r == processRunArgs(c, 1, OwnData(NoData, data), args, 0, 0)
    IN /\ argValues' = args
       /\ data' = r.data
       /\ IF r.err
          THEN pc' = "returned" /\ ret' = "error"
          ELSE pc' = (IF Len(c) = 0 THEN "errphase" ELSE "loop") /\ ret' = "none"
       /\ idx' = 1
       /\ postSteps' = <<>>
       /\ errHandler' = 0
       /\ stack' = <<>>
       /\ dpos' = 0
       /\ calls' = <<>>

\* chain.go:268 c.Run(args...) on the chain a Run was already called on
RunAgain(args) ==
    /\ pc # "build"
    /\ other = <<>>
    /\ Len(args) <= NumArgs(steps) + 1
    /\ other' = RunLocals
    /\ Begun(steps, args)
    /\ UNCHANGED <<steps, rejected, arrays, funcs, recv, rw, wire>>
    /\ UNCHANGED <<tree, registered, lastReg, uri, matched, params, status, siteVars>>

\* The scheduler: the other call of Run takes the next steps
Switch ==
    /\ other # <<>>
    /\ other' = RunLocals
    /\ steps' = other.steps
    /\ recv' = other.recv
    /\ pc' = other.pc
    /\ argValues' = other.argValues
    /\ idx' = other.idx
    /\ data' = OwnData(other.data, data)
    /\ postSteps' = other.postSteps
    /\ errHandler' = other.errHandler
    /\ stack' = other.stack
    /\ dpos' = other.dpos
    /\ ret' = other.ret
    /\ calls' = other.calls
    /\ UNCHANGED <<rejected, arrays, funcs, rw, wire>>
    /\ UNCHANGED <<tree, registered, lastReg, uri, matched, params, status, siteVars>>

(***************************************************************************)
(* The router's route tree (mux).  Strings are sequences of characters, so *)
(* that the parsing of patterns and paths is modelled as the code does it. *)
(***************************************************************************)
\* The sequences over S of length at most n
SeqsUpTo(S, n) == UNION {[1..m -> S] : m \in 0..n}

HasPrefix(s, prefix) == Len(s) >= Len(prefix) /\ SubSeq(s, 1, Len(prefix)) = prefix
HasSuffix(s, suffix) ==
    Len(s) >= Len(suffix) /\ SubSeq(s, Len(s) - Len(suffix) + 1, Len(s)) = suffix
TrimPrefix(s, prefix) == IF HasPrefix(s, prefix) THEN SubSeq(s, Len(prefix) + 1, Len(s)) ELSE s
TrimSuffix(s, suffix) == IF HasSuffix(s, suffix) THEN SubSeq(s, 1, Len(s) - Len(suffix)) ELSE s

\* strings.Split(s, "/")
RECURSIVE Split(_)
Split(s) ==
    IF \A i \in DOMAIN s : s[i] # "/" THEN <<s>>
    ELSE LET i == CHOOSE j \in DOMAIN s : s[j] = "/" /\ \A k \in 1..(j - 1) : s[k] # "/"
         IN <<SubSeq(s, 1, i - 1)>> \o Split(SubSeq(s, i + 1, Len(s)))

\* strings.Join(segments, "/")
RECURSIVE Join(_)
Join(segments) ==
    IF Len(segments) = 0 THEN <<>>
    ELSE IF Len(segments) = 1 THEN segments[1]
    ELSE segments[1] \o <<"/">> \o Join(Tail(segments))

\* &mux{static: map[string]*mux{}}; handler 0 is nil
EmptyMux == [static |-> <<>>, params |-> <<>>, handler |-> 0]

muxParam(paramName, greedy, mux) == [paramName |-> paramName, greedy |-> greedy, mux |-> mux]

\* registerInfo{seenParams: map[string]bool{}, seenGreedy: false}
registerInfo == [seenParams |-> {}, seenGreedy |-> FALSE]

entryToInfo(entry) ==
    IF HasPrefix(entry, <<":", ":">>)
    THEN [static |-> Tail(entry), isStatic |-> TRUE, paramName |-> <<>>, greedy |-> FALSE]
    ELSE IF ~HasPrefix(entry, <<":">>)
    THEN [static |-> entry, isStatic |-> TRUE, paramName |-> <<>>, greedy |-> FALSE]
    ELSE [static |-> <<>>, isStatic |-> FALSE,
          paramName |-> TrimSuffix(Tail(entry), <<"*">>),
          greedy |-> HasSuffix(entry, <<"*">>)]

\* TRUE iff checkAmbiguous returns an error
RECURSIVE checkAmbiguous(_, _)
checkAmbiguous(m, segments) ==
    IF Len(segments) = 0 THEN m.handler # 0
    ELSE IF entryToInfo(segments[1]).isStatic
    THEN IF entryToInfo(segments[1]).static \in DOMAIN m.static
         THEN checkAmbiguous(m.static[entryToInfo(segments[1]).static], Tail(segments))
         ELSE FALSE
    ELSE \E i \in DOMAIN m.params : checkAmbiguous(m.params[i].mux, Tail(segments))

\* The register functions return [ok, mux]: ok is FALSE iff the Go function
\* returns an error, mux is the node m after the call.  A call that fails
\* has changed no node.
Rejected(m) == [ok |-> FALSE, mux |-> m]
Accepted(m) == [ok |-> TRUE, mux |-> m]

RECURSIVE registerSegments(_, _, _, _)
RECURSIVE registerStatic(_, _, _, _, _)
RECURSIVE registerStaticLinkFirst(_, _, _, _, _)
RECURSIVE registerParam(_, _, _, _, _)
RECURSIVE registerParamLoop(_, _, _, _, _, _, _)

\* registerSegments without the "repeated entry" error: the handler of the
\* node is replaced
registerSegmentsOverwrite(r, m, segments, h) ==
    IF Len(segments) = 0
    THEN Accepted([m EXCEPT !.handler = h])
    ELSE IF HasPrefix(Head(segments), <<":", ":">>)
    THEN registerStatic(r, m, Tail(Head(segments)), Tail(segments), h)
    ELSE IF HasPrefix(Head(segments), <<":">>)
    THEN registerParam(r, m, Tail(Head(segments)), Tail(segments), h)
    ELSE registerStatic(r, m, Head(segments), Tail(segments), h)

registerSegments(r, m, segments, h) ==
    IF Len(segments) = 0
    THEN IF m.handler # 0 THEN Rejected(m) ELSE Accepted([m EXCEPT !.handler = h])
    ELSE IF HasPrefix(Head(segments), <<":", ":">>)
    THEN registerStatic(r, m, Tail(Head(segments)), Tail(segments), h)
    ELSE IF HasPrefix(Head(segments), <<":">>)
    THEN registerParam(r, m, Tail(Head(segments)), Tail(segments), h)
    ELSE registerStatic(r, m, Head(segments), Tail(segments), h)

\* registerStatic with `m.static[path] = sub` before the segments that
\* remain are registered
registerStaticLinkFirst(r, m, path, remaining, h) ==
    LET sub == IF path \in DOMAIN m.static THEN m.static[path] ELSE EmptyMux
        res == registerSegments(r, sub, remaining, h)
    IN [ok |-> res.ok, mux |-> [m EXCEPT !.static = (path :> res.mux) @@ @]]

registerStatic(r, m, path, remaining, h) ==
    LET sub == IF path \in DOMAIN m.static THEN m.static[path] ELSE EmptyMux
        res == registerSegments(r, sub, remaining, h)
    IN IF res.ok THEN Accepted([m EXCEPT !.static = (path :> res.mux) @@ @])
       ELSE Rejected(m)

\* The loop `for _, p := range m.params` of registerParam from index i on,
\* and what follows it
registerParamLoop(r, m, i, name, greedy, remaining, h) ==
    IF i > Len(m.params)
    THEN LET r2  == [seenParams |-> r.seenParams \cup {name},
                     seenGreedy |-> r.seenGreedy \/ greedy]
             res == registerSegments(r2, EmptyMux, remaining, h)
         IN IF res.ok
            THEN Accepted([m EXCEPT !.params = Append(@, muxParam(name, greedy, res.mux))])
            ELSE Rejected(m)
    ELSE IF m.params[i].paramName = name
    THEN IF m.params[i].greedy # greedy THEN Rejected(m)
         ELSE LET res == registerSegments(r, m.params[i].mux, remaining, h)
              IN IF res.ok THEN Accepted([m EXCEPT !.params[i].mux = res.mux])
                 ELSE Rejected(m)
    ELSE IF checkAmbiguous(m.params[i].mux, remaining) THEN Rejected(m)
    ELSE registerParamLoop(r, m, i + 1, name, greedy, remaining, h)

registerParam(r, m, param, remaining, h) ==
    LET greedy == HasSuffix(param, <<"*">>)
        name   == TrimSuffix(param, <<"*">>)
    IN IF greedy /\ r.seenGreedy THEN Rejected(m)
       ELSE IF name \in r.seenParams THEN Rejected(m)
       ELSE registerParamLoop(r, m, 1, name, greedy, remaining, h)

\* mux.Register(pattern, h)
MuxRegister(m, pattern, h) ==
    IF ~HasPrefix(pattern, <<"/">>) THEN Rejected(m)
    ELSE registerSegments(registerInfo, m, Split(Tail(pattern)), h)

\* What a match function returns: the handler h (0 is nil), for matchSuffix
\* the depth, and the Params map as the call left it.  panic marks a runtime
\* error (index out of range) raised during the call.
Outcome(h, depth, ps) == [h |-> h, depth |-> depth, params |-> ps, panic |-> FALSE]
RuntimePanic(ps)      == [h |-> 0, depth |-> 0, params |-> ps, panic |-> TRUE]

\* The match functions return the set of the outcomes the call can have:
\* matchSuffix ranges over the map m.static, in an order Go leaves open.
RECURSIVE matchPrefix(_, _, _)
RECURSIVE matchPrefixParams(_, _, _, _)
RECURSIVE matchSuffix(_, _, _)
RECURSIVE matchSuffixStatic(_, _, _, _)
RECURSIVE matchSuffixParams(_, _, _, _)

matchPrefix(m, segments, ps) ==
    IF Len(segments) = 0 THEN {Outcome(m.handler, 0, ps)}
    ELSE LET path      == Head(segments)
             remaining == Tail(segments)
             static    == IF path \in DOMAIN m.static
                          THEN matchPrefix(m.static[path], remaining, ps)
                          ELSE {Outcome(0, 0, ps)}
         IN UNION {IF o.panic \/ o.h # 0 THEN {o}
                   ELSE matchPrefixParams(m, 1, segments, o.params) : o \in static}

\* `for _, param := range m.params` of matchPrefix from index i on
matchPrefixParams(m, i, segments, ps) ==
    IF i > Len(m.params) THEN {Outcome(0, 0, ps)}
    ELSE LET param == m.params[i]
             path  == Head(segments)
             N     == Len(segments)
             sub   == IF ~param.greedy THEN matchPrefix(param.mux, Tail(segments), ps)
                      ELSE matchSuffix(param.mux, Tail(segments), ps)
         IN UNION {IF o.panic THEN {o}
                   ELSE IF o.h = 0 THEN matchPrefixParams(m, i + 1, segments, o.params)
                   ELSE IF ~param.greedy
                   THEN {Outcome(o.h, 0, (param.paramName :> path) @@ o.params)}
                   ELSE {Outcome(o.h, 0,
                                 (param.paramName :> Join(SubSeq(segments, 1, N - o.depth)))
                                     @@ o.params)} : o \in sub}

matchSuffix(m, segments, ps) ==
    IF Len(segments) = 0 THEN {Outcome(m.handler, 0, ps)}
    ELSE matchSuffixStatic(m, DOMAIN m.static, segments, ps)

\* `for staticPath, sub := range m.static` of matchSuffix, with the keys in
\* todo still to come
matchSuffixStatic(m, todo, segments, ps) ==
    IF todo = {} THEN matchSuffixParams(m, 1, segments, ps)
    ELSE LET N == Len(segments) IN
         UNION {UNION {IF o.panic THEN {o}
                       ELSE IF o.h = 0
                       THEN matchSuffixStatic(m, todo \ {staticPath}, segments, o.params)
                       ELSE IF N - (o.depth + 1) < 0 THEN {RuntimePanic(o.params)}
                       ELSE IF segments[N - (o.depth + 1) + 1] # staticPath
                       THEN matchSuffixStatic(m, todo \ {staticPath}, segments, o.params)
                       ELSE {Outcome(o.h, o.depth + 1, o.params)}
                       : o \in matchSuffix(m.static[staticPath], segments, ps)}
                : staticPath \in todo}

\* `for _, param := range m.params` of matchSuffix from index i on
matchSuffixParams(m, i, segments, ps) ==
    IF i > Len(m.params) THEN {Outcome(m.handler, 0, ps)}
    ELSE LET N == Len(segments) IN
         UNION {IF o.panic THEN {o}
                ELSE IF o.h = 0 THEN matchSuffixParams(m, i + 1, segments, o.params)
                ELSE IF N - (o.depth + 1) < 0 THEN {RuntimePanic(o.params)}
                ELSE {Outcome(o.h, o.depth + 1,
                              (m.params[i].paramName :> segments[N - (o.depth + 1) + 1])
                                  @@ o.params)}
                : o \in matchSuffix(m.params[i].mux, segments, ps)}

\* mux.Match(uri, params)
Match(m, u, ps) == matchPrefix(m, Split(TrimPrefix(u, <<"/">>)), ps)

(***************************************************************************)
(* The router: patterns are registered, requests are served.               *)
(***************************************************************************)
MaxSegs == 3    \* most segments of a registered pattern and of a request path
MaxReg  == 2    \* most patterns registered

Str(segments) == <<"/">> \o Join(segments)

\* The pattern segments used: static a, b; parameters :x, :y; greedy :m*
PatternSegs == {<<"a">>, <<"b">>, <<":", "x">>, <<":", "y">>, <<":", "m", "*">>}
\* The patterns registered, and one that does not begin with "/"
Patterns    == {Str(p) : p \in SeqsUpTo(PatternSegs, MaxSegs) \ {<<>>}} \cup {<<"a">>}

\* The path segments requested: a occurs in patterns, f in none
PathSegs == {<<"a">>, <<"f">>}
Paths    == {Str(p) : p \in SeqsUpTo(PathSegs, MaxSegs) \ {<<>>}}

\* router.On / mux.Register: the handler registered is the next handler id;
\* at most limit patterns are registered
RegisterUpTo(pattern, limit) ==
    /\ Len(registered) < limit
    /\ LET res == MuxRegister(tree, pattern, Len(registered) + 1) IN
       /\ tree' = res.mux
       /\ lastReg' = IF res.ok THEN "ok" ELSE "err"
       /\ registered' = IF res.ok THEN Append(registered, pattern) ELSE registered
    /\ uri' = <<>>
    /\ matched' = 0
    /\ params' = <<>>
    /\ status' = "none"
    /\ UNCHANGED chainVars
    /\ UNCHANGED siteVars
    /\ UNCHANGED moreVars

Register(pattern) == RegisterUpTo(pattern, MaxReg)

\* Longer sequences of registrations, of shorter patterns
MaxShortSegs == 2    \* most segments of a pattern of ShortPatterns
MaxShortReg  == 3    \* most patterns of ShortPatterns registered

\* The pattern segments used: those of PatternSegs and a second greedy :y*
ShortSegs     == PatternSegs \cup {<<":", "y", "*">>}
ShortPatterns == {Str(p) : p \in SeqsUpTo(ShortSegs, MaxShortSegs) \ {<<>>}} \cup {<<"a">>}

RegisterShort(pattern) == RegisterUpTo(pattern, MaxShortReg)

\* router.ServeHTTP for a request with the path u: Params{}, match, and the
\* handler or the 404
ServeHTTP(u) ==
    /\ \E o \in Match(tree, u, <<>>) :
          /\ matched' = IF o.panic THEN -1 ELSE o.h
          /\ params' = o.params
          /\ status' = IF o.panic THEN "panic" ELSE IF o.h # 0 THEN "served" ELSE "404"
    /\ uri' = u
    /\ lastReg' = "none"
    /\ UNCHANGED <<tree, registered>>
    /\ UNCHANGED chainVars
    /\ UNCHANGED siteVars
    /\ UNCHANGED moreVars

(***************************************************************************)
(* The Router: a tree of routers, each with a base chain, sub-routers by   *)
(* path prefix, and one route tree per method.                             *)
(***************************************************************************)
muxVars == <<tree, registered, lastReg, uri, matched, params, status>>

MaxRouters   == 3    \* most routers allocated, the root included
MaxRoutes    == 3    \* most routes registered with On
MaxBaseSteps == 2    \* most steps added to the base chain of a router
MaxVals      == 2    \* most values passed to one Set(...) call

\* The results of the chain operations as values: ok is FALSE iff the Go
\* method panics, steps is the Func it returns
FuncOk(c)   == [ok |-> TRUE, steps |-> c]
FuncPanic(c) == [ok |-> FALSE, steps |-> c]

FuncSet(c, value) ==
    IF value = "nil" THEN FuncPanic(c)
    ELSE FuncOk(with(c, <<Step("VALUE", "", value, Value("imm", value, Len(c) + 1))>>))

FuncSetAs(c, value, ifacePtr) ==
    IF ~IsPtrToInterface(ifacePtr) THEN FuncPanic(c)
    ELSE LET typ == Elem(ifacePtr)
             val == IF value = "nil" THEN Zero(typ) ELSE Value("imm", value, Len(c) + 1)
         IN IF ~Implements(val.rt, typ) THEN FuncPanic(c)
            ELSE FuncOk(with(c, <<Step("VALUE", "", typ, val)>>))

FuncThen(c, handlers) ==
    LET r == ThenSteps(typesAvailable(c), handlers)
    IN IF r.ok THEN FuncOk(with(c, r.steps)) ELSE FuncPanic(c)

FuncOnErr(c, errorHandler) ==
    IF CanAddHandler(c, errorHandler)
    THEN FuncOk(with(c, <<Step("ERR", errorHandler, "func", Invalid)>>))
    ELSE FuncPanic(c)

\* apply: c = c.Then(h) for each handler
RECURSIVE apply(_, _)
apply(c, handlers) ==
    IF handlers = <<>> THEN FuncOk(c)
    ELSE LET r == FuncThen(c, <<Head(handlers)>>)
         IN IF r.ok THEN apply(r.steps, Tail(handlers)) ELSE FuncPanic(c)

FuncDefer(c, handler) ==
    IF CanAddHandler(c, handler)
    THEN FuncOk(with(c, <<Step("POST", handler, "func", Invalid)>>))
    ELSE FuncPanic(c)

(***************************************************************************)
(* Wrap: a handler for the normal course (Before) and a deferred one       *)
(* (After), added together.                                                *)
(***************************************************************************)
\* toHandlerFunc: the ServeHTTP method of an http.Handler, else h itself (no
\* function of the model is an http.Handler)
toHandlerFunc(h) == h

\* Wrap.Apply: c.Then(toHandlerFunc(w.Before)).Defer(toHandlerFunc(w.After))
WrapApply(before, after) ==
    /\ Building
    /\ Len(steps) + 2 <= MaxSteps
    /\ LET t == FuncThen(steps, <<toHandlerFunc(before)>>)
           d == FuncDefer(t.steps, toHandlerFunc(after))
       IN IF t.ok /\ d.ok THEN Built(d.steps) ELSE Panicked

\* Middleware.Wrap: `if before != nil { c = c.With(before) }; c = c.Defer(after)`
MiddlewareWrap(before, after) ==
    /\ Building
    /\ Len(steps) + 2 <= MaxSteps
    /\ LET t == IF before # NilHandler THEN FuncThen(steps, <<before>>) ELSE FuncOk(steps)
           d == FuncDefer(t.steps, after)
       IN IF t.ok /\ d.ok THEN Built(d.steps) ELSE Panicked

(***************************************************************************)
(* Func values and the arrays behind their steps.  A Func is a slice       *)
(* header: the backing array (0 for the nil slice of chain.Func{}) and the *)
(* length; `made` is history, the steps the Func had when it was made.     *)
(***************************************************************************)
MaxFuncs == 5    \* most Func values made, chain.Func{} included
MaxChain == 4    \* longest chain derived

\* chain.Func{}
EmptyFunc == [arr |-> 0, len |-> 0, made |-> <<>>]

\* c.steps as a program reads it: the first len elements of the array
View(as, c) == IF c.arr = 0 THEN <<>> ELSE SubSeq(as[c.arr], 1, c.len)

\* cap(c.steps)
Cap(as, c) == IF c.arr = 0 THEN 0 ELSE Len(as[c.arr])

\* with as `Func{append(c.steps, steps...)}`: the new steps are written
\* behind the old ones into the array of c while its capacity allows, else
\* into a new array of twice the capacity (or of the length needed, if
\* that is more), whose unused elements are step{}
withAppend(as, c, more) ==
    LET n   == c.len + Len(more)
        all == View(as, c) \o more
        grown == IF n > 2 * Cap(as, c) THEN n ELSE 2 * Cap(as, c)
    IN IF n <= Cap(as, c)
       THEN [arrays |-> [as EXCEPT ![c.arr] =
                            [i \in 1..Cap(as, c) |->
                                IF i > c.len /\ i <= n THEN more[i - c.len] ELSE @[i]]],
             arr |-> c.arr, len |-> n]
       ELSE [arrays |-> Append(as, [i \in 1..grown |->
                                      IF i <= n THEN all[i] ELSE Step("", "", "", Invalid)]),
             arr |-> Len(as) + 1, len |-> n]

\* chain.go:114-119 with: make([]step, 0, len(c.steps)+len(steps)), then
\* both appended: a new array holding exactly the steps of the new Func
withMake(as, c, more) ==
    [arrays |-> Append(as, with(View(as, c), more)),
     arr |-> Len(as) + 1, len |-> c.len + Len(more)]

\* d := funcs[f].Arg(..) / Set(..) / SetAs(..) / Then(..) / OnErr(..) /
\* Defer(..): a panic of the operation leaves no new Func
Derive(f, op) ==
    /\ pc = "build"
    /\ Len(funcs) < MaxFuncs
    /\ LET c == View(arrays, funcs[f])
           r == CASE op.op = "Arg"   ->
                        FuncOk(with(c, <<Step("ARG", "", Elem(op.a), Invalid)>>))
                  [] op.op = "Set"   -> FuncSet(c, op.a)
                  [] op.op = "SetAs" -> FuncSetAs(c, op.a, "*error")
                  [] op.op = "Then"  -> FuncThen(c, op.a)
                  [] op.op = "OnErr" -> FuncOnErr(c, op.a)
                  [] op.op = "Defer" -> FuncDefer(c, op.a)
           w == withMake(arrays, funcs[f], SubSeq(r.steps, Len(c) + 1, Len(r.steps)))
       IN /\ Len(r.steps) <= MaxChain
          /\ rejected' = ~r.ok
          /\ IF r.ok
             THEN /\ arrays' = w.arrays
                  /\ funcs' = Append(funcs, [arr |-> w.arr, len |-> w.len, made |-> r.steps])
             ELSE UNCHANGED <<arrays, funcs>>
    /\ UNCHANGED <<steps, pc, argValues, idx, data, postSteps, errHandler, stack, dpos,
                   ret, calls, recv, other, rw, wire>>
    /\ UNCHANGED <<tree, registered, lastReg, uri, matched, params, status, siteVars>>

\* chain.go:268 funcs[f].Run(args...): the receiver is a copy of the slice
\* header, the steps are read from its array
RunFunc(f, args) ==
    /\ pc = "build"
    /\ Len(args) <= NumArgs(View(arrays, funcs[f])) + 1
    /\ steps' = View(arrays, funcs[f])
    /\ recv' = f
    /\ Begun(View(arrays, funcs[f]), args)
    /\ UNCHANGED <<rejected, arrays, funcs, other, rw, wire>>
    /\ UNCHANGED <<tree, registered, lastReg, uri, matched, params, status, siteVars>>

\* chain.go:268 the same call once more, after the first has ended
RunRepeat ==
    /\ pc \in {"returned", "panicked"}
    /\ recv # 0
    /\ other = <<>>
    /\ other' = RunLocals
    /\ steps' = View(arrays, funcs[recv])
    /\ Begun(View(arrays, funcs[recv]), argValues)
    /\ UNCHANGED <<rejected, arrays, funcs, recv, rw, wire>>
    /\ UNCHANGED <<tree, registered, lastReg, uri, matched, params, status, siteVars>>

\* &router{base: base}; the nil anyMethod is <<>>, an allocated one <<mux>>
NewRouter(base) == [base |-> base, subRouters |-> <<>>, byMethod |-> <<>>, anyMethod |-> <<>>]

BuildYourOwn ==
    NewRouter(<<Step("ARG", "", "http.ResponseWriter", Invalid),
                Step("ARG", "", "*http.Request", Invalid),
                Step("ARG", "", "Params", Invalid)>>)

NoCall     == [op |-> "none", r |-> 0, arg |-> <<>>, ok |-> TRUE]
NoRequest  == [method |-> <<>>, uri |-> <<>>]
NoResponse == [h |-> 0, params |-> <<>>, status |-> "none"]

\* A call op(arg) on the router r that left the routers rs and the routes ts;
\* ok is FALSE iff the call panicked
Called(op, r, arg, ok, rs, ts) ==
    /\ called' = [op |-> op, r |-> r, arg |-> arg, ok |-> ok]
    /\ routers' = rs
    /\ routes' = ts
    /\ request' = NoRequest
    /\ response' = NoResponse
    /\ UNCHANGED muxVars
    /\ UNCHANGED chainVars
    /\ UNCHANGED moreVars

\* strings.TrimRight(s, "/")
RECURSIVE TrimRight(_)
TrimRight(s) ==
    IF Len(s) > 0 /\ s[Len(s)] = "/" THEN TrimRight(SubSeq(s, 1, Len(s) - 1)) ELSE s

\* strings.ToUpper, on the letters used
Upper(c) ==
    CASE c = "g" -> "G" [] c = "e" -> "E" [] c = "t" -> "T"
      [] c = "p" -> "P" [] c = "u" -> "U" [] OTHER -> c
ToUpper(s) == [i \in DOMAIN s |-> Upper(s[i])]

\* The condition of SubRouter's panic for one existing prefix
PrefixConflictOneWay(existingPrefix, prefix) ==
    existingPrefix = prefix \/ HasPrefix(existingPrefix, prefix)

PrefixConflict(existingPrefix, prefix) ==
    \/ existingPrefix = prefix
    \/ HasPrefix(existingPrefix, prefix)
    \/ HasPrefix(prefix, existingPrefix)

\* As if the sub-routers of r referred to the base of r instead of holding
\* a copy of it
SetBaseShared(rs, r, base) ==
    [q \in DOMAIN rs |->
        IF q = r \/ q \in {rs[r].subRouters[p] : p \in DOMAIN rs[r].subRouters}
        THEN [rs[q] EXCEPT !.base = base] ELSE rs[q]]

\* r.base = base
SetBase(rs, r, base) == [rs EXCEPT ![r].base = base]

\* router.SubRouter
RouterSubRouter(r, prefix) ==
    /\ Len(routers) < MaxRouters
    /\ LET p == TrimRight(prefix) \o <<"/">> IN
       IF \E existingPrefix \in DOMAIN routers[r].subRouters :
              PrefixConflict(existingPrefix, p)
       THEN Called("SubRouter", r, <<p>>, FALSE, routers, routes)
       ELSE Called("SubRouter", r, <<p>>, TRUE,
                   Append([routers EXCEPT ![r].subRouters = (p :> (Len(routers) + 1)) @@ @],
                          NewRouter(routers[r].base)),
                   routes)

\* router.getOrAllocateMux: the router with the mux of the method allocated
getOrAllocateMux(rt, method) ==
    IF method = <<"*">>
    THEN IF rt.anyMethod = <<>> THEN [rt EXCEPT !.anyMethod = <<EmptyMux>>] ELSE rt
    ELSE IF method \in DOMAIN rt.byMethod THEN rt
    ELSE [rt EXCEPT !.byMethod = (method :> EmptyMux) @@ @]

MuxOf(rt, method) == IF method = <<"*">> THEN rt.anyMethod[1] ELSE rt.byMethod[method]

WithMux(rt, method, m) ==
    IF method = <<"*">> THEN [rt EXCEPT !.anyMethod = <<m>>]
    ELSE [rt EXCEPT !.byMethod[method] = m]

\* router.On: the handler registered is the chain apply(r.base, handlers...),
\* stored as routes[h]
On(r, method, path, handlers) ==
    /\ Len(routes) < MaxRoutes
    /\ LET mth == ToUpper(method)
           rt  == getOrAllocateMux(routers[r], mth)
           c   == apply(rt.base, handlers)
           res == MuxRegister(MuxOf(rt, mth), path, Len(routes) + 1)
       IN IF ~c.ok \/ ~res.ok
          THEN Called("On", r, <<mth, path>>, FALSE, [routers EXCEPT ![r] = rt], routes)
          ELSE Called("On", r, <<mth, path>>, TRUE,
                      [routers EXCEPT ![r] = WithMux(rt, mth, res.mux)],
                      Append(routes, [router |-> r, method |-> mth, pattern |-> path,
                                      chain |-> c.steps]))

BaseOpen(r) == Len(routers[r].base) < Len(BuildYourOwn.base) + MaxBaseSteps

\* router.Set: r.base = r.base.Set(val) for each val
RECURSIVE SetVals(_, _)
SetVals(c, vals) ==
    IF vals = <<>> THEN FuncOk(c)
    ELSE LET r == FuncSet(c, Head(vals))
         IN IF r.ok THEN SetVals(r.steps, Tail(vals)) ELSE FuncPanic(c)

RouterSet(r, vals) ==
    /\ BaseOpen(r)
    /\ LET c == SetVals(routers[r].base, vals)
       IN Called("Set", r, <<>>, c.ok, SetBase(routers, r, c.steps), routes)

\* router.SetAs
RouterSetAs(r, val, ifacePtr) ==
    /\ BaseOpen(r)
    /\ LET c == FuncSetAs(routers[r].base, val, ifacePtr)
       IN Called("SetAs", r, <<>>, c.ok, SetBase(routers, r, c.steps), routes)

\* router.Use
RouterUse(r, middlewareHandlers) ==
    /\ BaseOpen(r)
    /\ LET c == apply(routers[r].base, middlewareHandlers)
       IN Called("Use", r, <<>>, c.ok, SetBase(routers, r, c.steps), routes)

\* router.OnErr
RouterOnErr(r, errorHandler) ==
    /\ BaseOpen(r)
    /\ LET c == FuncOnErr(routers[r].base, errorHandler)
       IN Called("OnErr", r, <<>>, c.ok, SetBase(routers, r, c.steps), routes)

\* (*mux).Match on a mux that may be nil (ms is <<>> or <<mux>>)
MatchNilable(ms, u, ps) == IF ms = <<>> THEN {Outcome(0, 0, ps)} ELSE Match(ms[1], u, ps)

\* router.match: the set of the outcomes the call can have (the loop ranges
\* over the map r.subRouters)
RECURSIVE routerMatch(_, _, _, _)
RECURSIVE routerMatchFallThrough(_, _, _, _)

\* As if router.match went on to the routes of r when the sub-router under
\* whose prefix the path lies has no match
routerMatchFallThrough(r, method, u, ps) ==
    LET mth  == ToUpper(method)
        rt   == routers[r]
        hits == {prefix \in DOMAIN rt.subRouters : HasPrefix(u, prefix)}
        own  == UNION {IF o.panic \/ o.h # 0 THEN {o}
                       ELSE MatchNilable(rt.anyMethod, u, o.params) :
                       o \in MatchNilable(IF mth \in DOMAIN rt.byMethod
                                          THEN <<rt.byMethod[mth]>> ELSE <<>>, u, ps)}
    IN IF hits = {} THEN own
       ELSE UNION {IF o.panic \/ o.h # 0 THEN {o} ELSE own :
                   o \in UNION {routerMatch(rt.subRouters[prefix], mth,
                                            TrimPrefix(u, prefix), ps) : prefix \in hits}}

routerMatch(r, method, u, ps) ==
    LET mth  == ToUpper(method)
        rt   == routers[r]
        hits == {prefix \in DOMAIN rt.subRouters : HasPrefix(u, prefix)}
    IN IF hits # {}
       THEN UNION {routerMatch(rt.subRouters[prefix], mth, TrimPrefix(u, prefix), ps) :
                      prefix \in hits}
       ELSE UNION {IF o.panic \/ o.h # 0 THEN {o}
                   ELSE MatchNilable(rt.anyMethod, u, o.params) :
                   o \in MatchNilable(IF mth \in DOMAIN rt.byMethod
                                      THEN <<rt.byMethod[mth]>> ELSE <<>>, u, ps)}

\* router.ServeHTTP of the root Router
RouterServeHTTP(method, u) ==
    /\ \E o \in routerMatch(1, method, u, <<>>) :
          response' = [h |-> IF o.panic THEN -1 ELSE o.h,
                       params |-> o.params,
                       status |-> IF o.panic THEN "panic"
                                  ELSE IF o.h # 0 THEN "served" ELSE "404"]
    /\ request' = [method |-> method, uri |-> u]
    /\ called' = NoCall
    /\ UNCHANGED <<routers, routes>>
    /\ UNCHANGED muxVars
    /\ UNCHANGED chainVars
    /\ UNCHANGED moreVars

(***************************************************************************)
(* errors.go: Error, Done, ToError, HandleError, HandleErrorJson.  The     *)
(* function "done" is func() error { return sandwich.Done }, "failE"       *)
(* returns sandwich.Error{Code: 404, LogMsg: "m"} when it fails; of the    *)
(* parameters of HandleError and HandleErrorJson the model keeps err: w    *)
(* and r are arguments of Run, l comes from the NewLogEntry step.          *)
(***************************************************************************)
Done == [kind |-> "Done", Code |-> 0, ClientMsg |-> "", LogMsg |-> ""]

\* The Go error a Value of type error holds in a Run of the chain c
ErrorValue(c, v) ==
    IF v.k = "err" /\ StepAt(c, v.by).fn = "done" THEN Done
    ELSE IF v.k = "err" /\ StepAt(c, v.by).fn = "failE"
         THEN [kind |-> "Error", Code |-> 404, ClientMsg |-> "", LogMsg |-> "m"]
    ELSE IF v.k = "panic" THEN [kind |-> "PanicError", Code |-> 0, ClientMsg |-> "", LogMsg |-> ""]
    ELSE [kind |-> "other", Code |-> 0, ClientMsg |-> "", LogMsg |-> ""]

\* http.StatusText
StatusText(code) == IF code = 404 THEN "Not Found" ELSE "Internal Server Error"

\* ToError
ToError(err) ==
    LET e  == IF err.kind = "Error" THEN err
              ELSE [kind |-> "Error", Code |-> 0, ClientMsg |-> "", LogMsg |-> "Failure"]
        e2 == IF e.Code = 0 THEN [e EXCEPT !.Code = 500] ELSE e
    IN IF e2.ClientMsg = "" THEN [e2 EXCEPT !.ClientMsg = StatusText(e2.Code)] ELSE e2

\* What a handler left on w and l: the status and body written (0, "" for
\* none), the Content-Type set, whether l.Error was set
NoEffect == [status |-> 0, body |-> "", contentType |-> "", logged |-> FALSE]

\* Error.LogIfMsg
LogIfMsg(e) == e.LogMsg # ""

\* HandleError
HandleError(err) ==
    IF err = Done THEN NoEffect
    ELSE LET e == ToError(err)
         IN [status |-> e.Code, body |-> e.ClientMsg, contentType |-> "text/plain",
             logged |-> LogIfMsg(e)]

\* HandleErrorJson
HandleErrorJson(err) ==
    IF err = Done THEN NoEffect
    ELSE LET e == ToError(err)
         IN [status |-> e.Code, body |-> e.ClientMsg, contentType |-> "application/json",
             logged |-> LogIfMsg(e)]

(***************************************************************************)
(* ResponseWriter: the wrapper of an http.ResponseWriter that tracks the   *)
(* response code and size.                                                 *)
(***************************************************************************)
MaxWrites == 4    \* most calls made on one ResponseWriter
MaxLen    == 2    \* longest p of one Write(p)

\* WrapResponseWriter: &ResponseWriter{w, 0, 0}
NewResponseWriter == [Size |-> 0, Code |-> 0]

\* A WriteHeader that records every code it is given
LastCode(cur, code) == code

\* `if w.Code == 0 { w.Code = code }`
FirstCode(cur, code) == IF cur = 0 THEN code ELSE cur

\* ResponseWriter.WriteHeader
WriteHeader(code) ==
    /\ Len(wire) < MaxWrites
    /\ rw' = [rw EXCEPT !.Code = FirstCode(rw.Code, code)]
    /\ wire' = Append(wire, [op |-> "WriteHeader", code |-> code, n |-> 0])
    /\ UNCHANGED <<arrays, funcs, recv, other>>
    /\ UNCHANGED <<chainVars, muxVars, siteVars>>

\* ResponseWriter.Write: p is len(p), n what the embedded writer's Write
\* returns (n < p with a non-nil error)
Write(p, n) ==
    /\ Len(wire) < MaxWrites
    /\ n \in 0..p
    /\ rw' = [Code |-> FirstCode(rw.Code, 200), Size |-> rw.Size + n]
    /\ wire' = Append(wire, [op |-> "Write", code |-> 0, n |-> n])
    /\ UNCHANGED <<arrays, funcs, recv, other>>
    /\ UNCHANGED <<chainVars, muxVars, siteVars>>

(***************************************************************************)
(* The chain engine: build a chain, then Run it.                           *)
(***************************************************************************)
AllOutcomes == UNION {Outcomes(fn) : fn \in Funcs \cup {"DefaultErrorHandler"}}

InitChain ==
    /\ steps = <<>>
    /\ rejected = FALSE
    /\ pc = "build"
    /\ argValues = <<>>
    /\ idx = 1
    /\ data = NoData
    /\ postSteps = <<>>
    /\ errHandler = 0
    /\ stack = <<>>
    /\ dpos = 0
    /\ ret = "none"
    /\ calls = <<>>

InitRouter ==
    /\ tree = EmptyMux
    /\ registered = <<>>
    /\ lastReg = "none"
    /\ uri = <<>>
    /\ matched = 0
    /\ params = <<>>
    /\ status = "none"
    /\ routers = <<BuildYourOwn>>
    /\ routes = <<>>
    /\ called = NoCall
    /\ request = NoRequest
    /\ response = NoResponse

InitMore ==
    /\ arrays = <<>>
    /\ funcs = <<EmptyFunc>>
    /\ recv = 0
    /\ other = <<>>
    /\ rw = NewResponseWriter
    /\ wire = <<>>

Init == InitChain /\ InitRouter /\ InitMore

Next ==
    \/ \E t \in ArgInputs : Arg(t)
    \/ \E v \in SetInputs : Set(v)
    \/ \E v \in SetInputs, p \in IfacePtrInputs : SetAs(v, p)
    \/ \E hs \in SeqsUpTo(Handlers, MaxThen) : Then(hs)
    \/ \E h \in Handlers : OnErr(h)
    \/ \E h \in Handlers : Defer(h)
    \/ \E args \in SeqsUpTo(ArgValueInputs, MaxRunArgs) : RunBegin(args)
    \/ RunStep
    \/ \E o \in AllOutcomes : RunPre(o)
    \/ \E o \in AllOutcomes : RunErrPhase(o)
    \/ \E o \in AllOutcomes : RunDefer(o)

Spec == Init /\ [][Next]_vars

NextRouter ==
    \/ \E pattern \in Patterns : Register(pattern)
    \/ \E u \in Paths : ServeHTTP(u)

SpecRouter == Init /\ [][NextRouter]_vars

\* The Router: sub-routers, routes by method, requests
GET == <<"G", "E", "T">>
PUT == <<"P", "U", "T">>

SiteMethods  == {<<"g", "e", "t">>, PUT, <<"*">>}
ReqMethods   == {GET, <<"g", "e", "t">>}
SitePatterns == {Str(<<<<"a">>>>), Str(<<<<":", "x">>>>),
                 Str(<<<<":", "m", "*">>, <<"a">>>>),
                 Str(<<<<":", "m", "*">>, <<"a">>, <<"a">>>>)}
SitePaths    == {Str(p) : p \in SeqsUpTo({<<"a">>, <<"b">>}, MaxSegs) \ {<<>>}}

NextRoutes ==
    \/ \E r \in DOMAIN routers, method \in SiteMethods, path \in SitePatterns :
          On(r, method, path, <<"say">>)
    \/ \E method \in ReqMethods, u \in SitePaths : RouterServeHTTP(method, u)

SpecRoutes == Init /\ [][NextRoutes]_vars

\* The Router: sub-routers, their routes, requests
SitePrefixes == {<<"/", "a">>, <<"/", "a", "/">>, <<"/", "a", "/", "b">>,
                 <<"/", "a", "b">>, <<"a">>}
SubPatterns  == {Str(<<<<":", "x">>>>), Str(<<<<"a">>, <<":", "x">>>>)}

NextSub ==
    \/ \E r \in DOMAIN routers, prefix \in SitePrefixes : RouterSubRouter(r, prefix)
    \/ \E r \in DOMAIN routers, path \in SubPatterns : On(r, GET, path, <<"say">>)
    \/ \E u \in SitePaths : RouterServeHTTP(GET, u)

SpecSub == Init /\ [][NextSub]_vars

\* The Router: base chains, sub-routers, routes
BasePatterns == {Str(<<<<"a">>>>), Str(<<<<":", "x">>>>)}

NextBase ==
    \/ \E r \in DOMAIN routers, vals \in {<<"A">>, <<"A", "nil">>} : RouterSet(r, vals)
    \/ \E r \in DOMAIN routers, p \in IfacePtrInputs : RouterSetAs(r, "E", p)
    \/ \E r \in DOMAIN routers, hs \in {<<"mkA">>, <<"AtoB">>} : RouterUse(r, hs)
    \/ \E r \in DOMAIN routers, h \in {"useErr", "mkA"} : RouterOnErr(r, h)
    \/ RouterSubRouter(1, <<"/", "a">>)
    \/ \E r \in DOMAIN routers, path \in BasePatterns : On(r, GET, path, <<"AtoB">>)

SpecBase == Init /\ [][NextBase]_vars

\* The chain engine: Arg declarations against the arguments of Run
NextArgs ==
    \/ \E t \in {"A", "*error", "P"} : Arg(t)
    \/ \E h \in {"useA", "useErr", "useP"} : Then(<<h>>)
    \/ Defer("useErr")
    \/ \E args \in SeqsUpTo({"nil", "A", "C", "E", "P"}, MaxRunArgs) : RunBegin(args)
    \/ RunStep
    \/ \E o \in AllOutcomes : RunPre(o)
    \/ \E o \in AllOutcomes : RunErrPhase(o)
    \/ \E o \in AllOutcomes : RunDefer(o)

SpecArgs == Init /\ [][NextArgs]_vars

\* The chain engine: chains built with Wrap
Befores == {"say", "mkA", "fail", NilHandler}
Afters  == {"say", "useErr", "useAErr"}

NextWrap ==
    \/ \E before \in Befores, after \in Afters : WrapApply(before, after)
    \/ \E before \in Befores, after \in Afters : MiddlewareWrap(before, after)
    \/ \E h \in {"mkA", "fail", "AtoB"} : Then(<<h>>)
    \/ OnErr("say")
    \/ RunBegin(<<>>)
    \/ RunStep
    \/ \E o \in AllOutcomes : RunPre(o)
    \/ \E o \in AllOutcomes : RunErrPhase(o)
    \/ \E o \in AllOutcomes : RunDefer(o)

SpecWrap == Init /\ [][NextWrap]_vars

\* A ResponseWriter and the calls made on it
NextWriter ==
    \/ \E code \in {200, 404, 500} : WriteHeader(code)
    \/ \E p \in 0..MaxLen, n \in 0..MaxLen : Write(p, n)

SpecWriter == Init /\ [][NextWriter]_vars

\* The chain engine: handlers that return Done, HandleError
NextDone ==
    \/ \E h \in {"say", "mkA", "done", "failE"} : Then(<<h>>)
    \/ \E h \in {"useErr", "useAErr"} : Defer(h)
    \/ \E h \in {"HandleError", "HandleErrorJson"} : OnErr(h)
    \/ RunBegin(<<>>)
    \/ RunStep
    \/ \E o \in AllOutcomes : RunPre(o)
    \/ \E o \in AllOutcomes : RunErrPhase(o)
    \/ \E o \in AllOutcomes : RunDefer(o)

SpecDone == Init /\ [][NextDone]_vars

(***************************************************************************)
(* TheUsual: a route of a Router made by TheUsual, and a request served by *)
(* it.  "sendMsg" is func(w http.ResponseWriter) { w.Write("Hi there") },  *)
(* which may panic after the Write (logger_test.go:63, 67).                *)
(***************************************************************************)
MaxRouteHandlers == 3    \* most handlers of the route

\* TheUsual: r.Use(WrapResponseWriter, LogRequests); r.OnErr(HandleError),
\* where LogRequests is Wrap{NewLogEntry, Commit of *LogEntry}
TheUsual ==
    LET w == FuncThen(BuildYourOwn.base, <<"WrapResponseWriter">>)
        b == FuncThen(w.steps, <<toHandlerFunc("NewLogEntry")>>)
        a == FuncDefer(b.steps, toHandlerFunc("Commit"))
        e == FuncOnErr(a.steps, "HandleError")
    IN [BuildYourOwn EXCEPT !.base = e.steps]

\* router.On of that router: apply(r.base, handlers...), where the last
\* handler may be a Wrap (wrap is <<Before, After>>, or <<>> for none)
UsualOn(handlers, wrap) ==
    /\ pc = "build"
    /\ steps = <<>>
    /\ LET c == apply(TheUsual.base, handlers)
           t == IF wrap = <<>> THEN c ELSE FuncThen(c.steps, <<toHandlerFunc(wrap[1])>>)
           d == IF wrap = <<>> THEN t ELSE FuncDefer(t.steps, toHandlerFunc(wrap[2]))
       IN IF c.ok /\ t.ok /\ d.ok THEN Built(d.steps) ELSE Panicked

\* handler.ServeHTTP: h.Func.MustRun(w, r, p)
UsualServeHTTP ==
    /\ steps # <<>>
    /\ RunBegin(<<"http.ResponseWriter", "*http.Request", "Params">>)

\* len of the messages http.Error is given
TextLen(msg) ==
    CASE msg = "Not Found" -> 9 [] msg = "Internal Server Error" -> 21 [] OTHER -> 0

\* The calls a called function makes on the http.ResponseWriter it is given:
\* sendMsg one Write of 8 bytes; HandleError http.Error(w, e.ClientMsg,
\* e.Code), which is WriteHeader(code) and a Write of the message and "\n"
WritesOf(c, rec) ==
    LET fn == StepAt(c, rec.s).fn IN
    IF fn = "sendMsg" THEN <<[op |-> "Write", code |-> 0, n |-> 8]>>
    ELSE IF fn = "HandleError"
    THEN LET e == HandleError(ErrorValue(c, rec.in[1])) IN
         IF e.status = 0 THEN <<>>
         ELSE <<[op |-> "WriteHeader", code |-> e.status, n |-> 0],
                [op |-> "Write", code |-> 0, n |-> TextLen(e.body) + 1]>>
    ELSE <<>>

\* The calls made on the writer by the first k calls of the Run
RECURSIVE WritesUpTo(_, _, _)
WritesUpTo(c, cs, k) ==
    IF k = 0 THEN <<>> ELSE WritesUpTo(c, cs, k - 1) \o WritesOf(c, cs[k])

\* The fields of the *ResponseWriter after the calls ops, from w on
RECURSIVE Tracked(_, _)
Tracked(w, ops) ==
    IF ops = <<>> THEN w
    ELSE LET o == Head(ops) IN
         Tracked(IF o.op = "WriteHeader"
                 THEN [w EXCEPT !.Code = FirstCode(w.Code, o.code)]
                 ELSE [Code |-> FirstCode(w.Code, 200), Size |-> w.Size + o.n],
                 Tail(ops))

\* Commit: the entries WriteLog was given in the Run, each with
\* entry.ResponseSize = w.Size and entry.StatusCode = w.Code
Commits(c, cs) == {k \in DOMAIN cs : StepAt(c, cs[k].s).fn = "Commit"}
LogEntryOf(c, cs, k) ==
    LET w == Tracked(NewResponseWriter, WritesUpTo(c, cs, k - 1))
    IN [StatusCode |-> w.Code, ResponseSize |-> w.Size]

\* A route of TheUsual and requests to it
NextUsual ==
    \/ \E hs \in SeqsUpTo({"sendMsg", "mkA", "useA", "fail", "failE", "done"},
                          MaxRouteHandlers),
          wrap \in {<<>>, <<"say", "sendMsg">>} : UsualOn(hs, wrap)
    \/ UsualServeHTTP
    \/ RunStep
    \/ \E o \in AllOutcomes : RunPre(o)
    \/ \E o \in AllOutcomes : RunErrPhase(o)
    \/ \E o \in AllOutcomes : RunDefer(o)

SpecUsual == Init /\ [][NextUsual]_vars

\* The chain engine: two calls of Run on one chain, interleaved
NextRuns ==
    \/ Arg("A")
    \/ Set("A")
    \/ \E h \in {"mkA", "useA"} : Then(<<h>>)
    \/ Defer("useAErr")
    \/ \E args \in SeqsUpTo({"A", "C"}, 1) : RunBegin(args)
    \/ \E args \in SeqsUpTo({"A", "C"}, 1) : RunAgain(args)
    \/ Switch
    \/ RunStep
    \/ \E o \in AllOutcomes : RunPre(o)
    \/ \E o \in AllOutcomes : RunErrPhase(o)
    \/ \E o \in AllOutcomes : RunDefer(o)

SpecRuns == Init /\ [][NextRuns]_vars

\* Chains derived from chains, and their Runs
NextDerive ==
    \/ \E f \in DOMAIN funcs : Derive(f, [op |-> "Arg", a |-> "A"])
    \/ \E f \in DOMAIN funcs : Derive(f, [op |-> "Set", a |-> "A"])
    \/ \E f \in DOMAIN funcs : Derive(f, [op |-> "SetAs", a |-> "E"])
    \/ \E f \in DOMAIN funcs : Derive(f, [op |-> "OnErr", a |-> "HandleError"])
    \/ \E f \in DOMAIN funcs, hs \in {<<"done">>, <<"done", "done">>} :
          Derive(f, [op |-> "Then", a |-> hs])
    \/ \E f \in DOMAIN funcs : Derive(f, [op |-> "Defer", a |-> "HandleError"])
    \/ \E f \in DOMAIN funcs, args \in {<<>>, <<"A">>} : RunFunc(f, args)
    \/ RunRepeat
    \/ RunStep
    \/ \E o \in AllOutcomes : RunPre(o)
    \/ \E o \in AllOutcomes : RunErrPhase(o)
    \/ \E o \in AllOutcomes : RunDefer(o)

SpecDerive == Init /\ [][NextDerive]_vars

(***************************************************************************)
(* Code: the Go source written for a chain, as the statements of the       *)
(* function it declares, and what that function does when it is called.    *)
(* A variable is named after its type (nameMapper.For), so a type stands   *)
(* for the variable of that type.  "nextA" is func(a A) A.                 *)
(***************************************************************************)
\* The types of the steps of kind typ, in the order of the steps
RECURSIVE ParamsOf(_, _, _)
ParamsOf(c, i, typ) ==
    IF i > Len(c) THEN <<>>
    ELSE (IF c[i].typ = typ THEN <<c[i].valTyp>> ELSE <<>>) \o ParamsOf(c, i + 1, typ)

\* part_010:44-88 the loop that writes the body: for the handler of step i
\* a call statement (inside `defer func() { ... }()` for a deferred
\* handler), before it `var` declarations for the output types that have no
\* name yet, after it `if err != nil { errHandler(...); return }` if the
\* handler returns an error.  has are the types that have a name, eh is the
\* error handler in force (0: DefaultErrorHandler), onErr is -1 for none.
RECURSIVE CodeStmts(_, _, _, _)
CodeStmts(c, i, has, eh) ==
    IF i > Len(c) THEN <<>>
    ELSE IF c[i].typ \in {"ARG", "VALUE"} THEN CodeStmts(c, i + 1, has, eh)
    ELSE IF c[i].typ = "ERR" THEN CodeStmts(c, i + 1, has, i)
    ELSE LET t            == Sig(c[i].fn)
             returnsError == errorType \in Range(t.out)
             named        == Range(t.out) \cup Range(t.in)
                                \cup (IF returnsError THEN Range(Sig(StepAt(c, eh).fn).in)
                                      ELSE {})
         IN <<[s |-> i, deferred |-> c[i].typ = "POST", decl |-> Range(t.out) \ has,
               in |-> t.in, out |-> t.out, onErr |-> IF returnsError THEN eh ELSE -1]>>
            \o CodeStmts(c, i + 1, has \cup named, eh)

\* part_010:14-90 Code: func name(valueParams) func(argParams) { return
\* func(argParams) { body } }
Code(c) ==
    LET vs == ParamsOf(c, 1, "VALUE")
        as == ParamsOf(c, 1, "ARG")
    IN [valueParams |-> vs, argParams |-> as,
        body |-> CodeStmts(c, 1, Range(vs) \cup Range(as), 0)]

\* The source compiles: no parameter name twice in one list, and every
\* variable a statement names is a parameter or declared before it
InScope(prog, k) ==
    Range(prog.valueParams) \cup Range(prog.argParams)
        \cup UNION {prog.body[j].decl : j \in 1..k}
Compiles(c, prog) ==
    /\ Cardinality(Range(prog.valueParams)) = Len(prog.valueParams)
    /\ Cardinality(Range(prog.argParams)) = Len(prog.argParams)
    /\ \A k \in DOMAIN prog.body :
          LET st == prog.body[k] IN
          /\ Range(st.in) \cup Range(st.out) \subseteq InScope(prog, k)
          /\ st.onErr >= 0 => Range(Sig(StepAt(c, st.onErr).fn).in) \subseteq InScope(prog, k)

\* The zero value a `var` declaration gives a variable
GoZero(t) == IF IsInterface(t) \/ IsPointer(t) THEN Zero(t) ELSE Value("zero", t, 0)

\* The variables of the outer function after name(values...) was called
\* with the values of the VALUE steps: its parameters
OuterVars(c) ==
    [t \in TypeSet |->
        IF \E i \in DOMAIN c : c[i].typ = "VALUE" /\ c[i].valTyp = t
        THEN c[CHOOSE i \in DOMAIN c : c[i].typ = "VALUE" /\ c[i].valTyp = t].val
        ELSE Invalid]

\* A variable of the inner function (a parameter or a local) hides the
\* parameter of the outer function of the same name
ReadVar(st, t) == IF t \in st.innerHas THEN st.inner[t] ELSE st.outer[t]
WriteVar(st, t, v) ==
    IF t \in st.innerHas THEN [st EXCEPT !.inner[t] = v] ELSE [st EXCEPT !.outer[t] = v]

RECURSIVE WriteOuts(_, _, _, _, _)
WriteOuts(st, i, out, n, res) ==
    IF n > Len(out) THEN st
    ELSE WriteOuts(WriteVar(st, out[n], OutValue(i, out[n], res)), i, out, n + 1, res)

\* The call fn(in...) of the handler of step i: the record of the call
GenCall(c, st, i) ==
    LET t == Sig(StepAt(c, i).fn)
    IN [s |-> i, in |-> [n \in DOMAIN t.in |-> ReadVar(st, t.in[n])]]

\* The function returns, or panics: the deferred functions run, the last
\* deferred first; a panic of one of them does not stop the others
RECURSIVE GenUnwind(_, _, _, _, _)
GenUnwind(c, st, j, result, beh) ==
    IF j < 1 THEN [result |-> result, trace |-> st.trace, outer |-> st.outer]
    ELSE LET i == st.defers[j] IN
         GenUnwind(c, [st EXCEPT !.trace = Append(@, GenCall(c, st, i))], j - 1,
                   IF beh[i].res = "panic" THEN "panic" ELSE result, beh)

\* The body from statement k on.  beh[i] is what the handler of step i does
\* when called (Outcomes); nothing recovers a panic, so it ends the function
RECURSIVE GenBody(_, _, _, _, _)
GenBody(c, prog, k, st, beh) ==
    IF k > Len(prog.body) THEN GenUnwind(c, st, Len(st.defers), "returned", beh)
    ELSE LET stmt == prog.body[k]
             st1  == [st EXCEPT !.innerHas = @ \cup stmt.decl,
                                !.inner = [t \in TypeSet |->
                                              IF t \in stmt.decl THEN GoZero(t) ELSE @[t]]]
         IN IF stmt.deferred
            THEN GenBody(c, prog, k + 1, [st1 EXCEPT !.defers = Append(@, stmt.s)], beh)
            ELSE LET st2 == [st1 EXCEPT !.trace = Append(@, GenCall(c, st1, stmt.s))]
                     st3 == WriteOuts(st2, stmt.s, stmt.out, 1, beh[stmt.s].res)
                 IN IF beh[stmt.s].res = "panic"
                    THEN GenUnwind(c, st2, Len(st2.defers), "panic", beh)
                    ELSE IF stmt.onErr >= 0 /\ ~IsNil(ReadVar(st3, errorType))
                    THEN LET st4 == [st3 EXCEPT !.trace = Append(@, GenCall(c, st3, stmt.onErr))]
                         IN GenUnwind(c, st4, Len(st4.defers),
                                      IF beh[stmt.onErr].res = "panic" THEN "panic"
                                      ELSE "returned", beh)
                    ELSE GenBody(c, prog, k + 1, st3, beh)

\* One call of the function Code(c) declares, with the arguments args, the
\* variables outer of the outer function, and handlers that do what beh says
GenInvoke(c, outer, args, beh) ==
    LET prog == Code(c)
        d    == processRunArgs(c, 1, NoData, args, 0, 0).data
    IN IF ~Compiles(c, prog)
       THEN [result |-> "invalid", trace |-> <<>>, outer |-> outer]
       ELSE GenBody(c, prog, 1,
                    [outer |-> outer, inner |-> d, innerHas |-> Range(prog.argParams),
                     defers |-> <<>>, trace |-> <<>>], beh)

\* What the handlers did in a Run with the calls cs: the handler of a step
\* that was not called returns without error, DefaultErrorHandler panics
BehOf(cs) ==
    [i \in 0..MaxChain |->
        IF \E k \in DOMAIN cs : cs[k].s = i
        THEN LET k == CHOOSE k \in DOMAIN cs : cs[k].s = i
             IN [res |-> cs[k].res, pv |-> cs[k].pv]
        ELSE IF i = 0 THEN [res |-> "panic", pv |-> DefaultPanicVal]
        ELSE [res |-> "ok", pv |-> 0]]

\* The chain engine: chains whose Code is written, each derived from the
\* chain made last, run once and again
NextCode ==
    \/ Derive(Len(funcs), [op |-> "Arg", a |-> "A"])
    \/ Derive(Len(funcs), [op |-> "Set", a |-> "A"])
    \/ \E h \in {"nextA", "useA", "mkA"} : Derive(Len(funcs), [op |-> "Then", a |-> <<h>>])
    \/ Derive(Len(funcs), [op |-> "OnErr", a |-> "useErr"])
    \/ Derive(Len(funcs), [op |-> "Defer", a |-> "useA"])
    \/ \E f \in DOMAIN funcs, args \in {<<>>, <<"A">>} : RunFunc(f, args)
    \/ RunRepeat
    \/ RunStep
    \/ \E o \in AllOutcomes : RunPre(o)
    \/ \E o \in AllOutcomes : RunErrPhase(o)
    \/ \E o \in AllOutcomes : RunDefer(o)

SpecCode == Init /\ [][NextCode]_vars

\* The chain engine: what Then, OnErr and Defer take for a handler
NextHandlers ==
    \/ \E hs \in SeqsUpTo({"say", "mkA", "notAFunc", NilHandler}, MaxThen) : Then(hs)
    \/ \E h \in {"say", "useErr", "mkA", "fail", "notAFunc", NilHandler} : OnErr(h)
    \/ \E h \in {"say", "useErr", "mkA", "fail", "notAFunc", NilHandler} : Defer(h)

SpecHandlers == Init /\ [][NextHandlers]_vars

\* Registrations only
NextRegister == \E pattern \in ShortPatterns : RegisterShort(pattern)

SpecRegister == Init /\ [][NextRegister]_vars

(***************************************************************************)
(* Vocabulary of the properties of a Run.                                  *)
(***************************************************************************)
Min(S) == CHOOSE x \in S : \A y \in S : x <= y
Max(S) == CHOOSE x \in S : \A y \in S : x >= y

RECURSIVE Ascending(_)
Ascending(S) == IF S = {} THEN <<>> ELSE <<Min(S)>> \o Ascending(S \ {Min(S)})

\* The indices of the steps of kind typ, in registration order
StepsOfKind(c, typ) == Ascending({i \in DOMAIN c : c[i].typ = typ})

IsPreCall(e)  == e.phase = "pre"
IsErrCall(e)  == e.phase = "err"
IsPostCall(e) == e.phase = "post"

CalledSteps(cs) == [i \in DOMAIN cs |-> cs[i].s]

Failed(e) == e.res \in {"err", "panic"}

\* The calls of PRE handlers that failed (returned a non-nil error or panicked)
FailedPre == {i \in DOMAIN calls : IsPreCall(calls[i]) /\ Failed(calls[i])}

\* The arguments correspond exactly to the Arg declarations
ArgsMatch(c, args) ==
    LET decl == StepsOfKind(c, "ARG") IN
    /\ Len(args) = Len(decl)
    /\ \A n \in DOMAIN decl :
          LET typ == c[decl[n]].valTyp IN
          \/ args[n] = "nil" /\ typ = "error"
          \/ args[n] # "nil" /\ (args[n] = typ \/ (typ = "error" /\ args[n] = "E"))

(***************************************************************************)
(* C1: whenever Run is about to call a function (a PRE handler, the active *)
(* error handler when an error is pending, a collected deferred handler),  *)
(* every parameter type of that function has a bound value, so the         *)
(* "Cannot inject" panic of call is never raised.                          *)
(***************************************************************************)
Injectable(i) == \A n \in DOMAIN Sig(StepAt(steps, i).fn).in :
                    IsValid(data[Sig(StepAt(steps, i).fn).in[n]])

C1_AlwaysInjectable ==
    /\ pc # "panicked"
    /\ (pc = "loop" /\ steps[idx].typ = "PRE") => Injectable(idx)
    /\ (pc = "errphase" /\ HasError(data)) => Injectable(errHandler)
    /\ pc = "defers" => Injectable(postSteps[dpos])

\* a deferred handler with parameters is about to be called after a PRE
\* handler panicked
C1_Witness ==
    /\ pc = "defers"
    /\ Len(Sig(steps[postSteps[dpos]].fn).in) = 2
    /\ \E i \in FailedPre : calls[i].res = "panic"

(***************************************************************************)
(* C2: a Run whose arguments match the Arg declarations never panics and   *)
(* returns nil, whatever the handlers do (return, return an error, panic), *)
(* in the normal, the error-handler and the deferred phase, also with the  *)
(* default error handler.                                                  *)
(***************************************************************************)
C2_RunReturnsNil ==
    /\ ret # "panic"
    /\ (pc = "returned" /\ ArgsMatch(steps, argValues)) => ret = "nil"
    /\ (pc \in {"loop", "errphase", "defers"}) => ArgsMatch(steps, argValues)

\* Run returned nil although a PRE handler failed, the default error handler
\* panicked and a deferred handler panicked
C2_Witness ==
    /\ pc = "returned" /\ ret = "nil"
    /\ \E i \in DOMAIN calls : IsErrCall(calls[i]) /\ calls[i].s = 0
    /\ \E i \in DOMAIN calls : IsPostCall(calls[i]) /\ calls[i].res = "panic"

(***************************************************************************)
(* C3: in a Run in which no handler fails, the PRE handlers are invoked in *)
(* registration order and afterwards all deferred handlers in reverse      *)
(* registration order, however Then and Defer are interleaved.             *)
(***************************************************************************)
NoHandlerFails == \A i \in DOMAIN calls : ~IsErrCall(calls[i]) => ~Failed(calls[i])

IsHandlerCall(e) == ~IsErrCall(e)

FullOrder ==
    CalledSteps(SelectSeq(calls, IsHandlerCall))
        = StepsOfKind(steps, "PRE") \o Reverse(StepsOfKind(steps, "POST"))

C3_RegistrationOrder == (pc = "returned" /\ ret = "nil" /\ NoHandlerFails) => FullOrder

\* Defer, Then, Defer ran to the end without a failure
C3_Witness ==
    /\ pc = "returned" /\ ret = "nil" /\ NoHandlerFails
    /\ Len(steps) = 3
    /\ steps[1].typ = "POST" /\ steps[2].typ = "PRE" /\ steps[3].typ = "POST"
    /\ Len(calls) = 3

(***************************************************************************)
(* C4: when a PRE handler returns a non-nil error, no later PRE handler is *)
(* invoked, the deferred handlers that run are exactly those registered    *)
(* before the failing handler, in reverse registration order, and they run *)
(* after the error handler has run.                                        *)
(***************************************************************************)
IsPrefix(a, b) == Len(a) <= Len(b) /\ a = SubSeq(b, 1, Len(a))

\* The deferred handlers registered before step f, most recent first
DefersBefore(f) == Reverse(Ascending({i \in DOMAIN steps : steps[i].typ = "POST" /\ i < f}))

AbortedAt(i) ==
    LET f == calls[i].s
        posts == CalledSteps(SelectSeq(calls, IsPostCall))
    IN /\ \A j \in DOMAIN calls : j > i => ~IsPreCall(calls[j])
       /\ \A j \in DOMAIN calls :
             IsPostCall(calls[j]) => \E e \in DOMAIN calls : IsErrCall(calls[e]) /\ i < e /\ e < j
       /\ IsPrefix(posts, DefersBefore(f))
       /\ pc \in {"returned", "panicked"} => posts = DefersBefore(f)
       /\ pc = "loop" => idx > Len(steps)

C4_ErrorAborts ==
    \A i \in DOMAIN calls : (IsPreCall(calls[i]) /\ calls[i].res = "err") => AbortedAt(i)

\* Defer, Then (fails), Defer: the run returned after calling the error
\* handler and the first deferred handler only
C4_Witness ==
    /\ pc = "returned"
    /\ Len(steps) = 3
    /\ steps[1].typ = "POST" /\ steps[2].typ = "PRE" /\ steps[3].typ = "POST"
    /\ \E i \in DOMAIN calls : IsPreCall(calls[i]) /\ calls[i].res = "err"

(***************************************************************************)
(* C5: when a PRE handler fails, the error handler invoked is the one most *)
(* recently registered by OnErr before the failing handler (the default    *)
(* error handler if there is none); it is invoked exactly once, with that  *)
(* handler's error; an OnErr registered after the failing handler is never *)
(* invoked; when no PRE handler fails, no error handler is invoked.        *)
(***************************************************************************)
ErrCalls == {i \in DOMAIN calls : IsErrCall(calls[i])}

\* The error handler in force at step f
ActiveHandler(f) == Max({0} \cup {i \in DOMAIN steps : steps[i].typ = "ERR" /\ i < f})

\* The error a failed call leaves: the error it returned, or the PanicError
\* of its panic
ErrorOf(i) ==
    IF calls[i].res = "err" THEN Value("err", errorType, calls[i].s)
    ELSE [k |-> "panic", rt |-> errorType, by |-> calls[i].s, pv |-> calls[i].pv,
          mw |-> Reverse(CalledSteps(SubSeq(calls, 1, i)))]

\* The value the function called in calls[i] got for its parameters of type t
Received(i, t) ==
    {calls[i].in[n] : n \in {m \in DOMAIN calls[i].in :
                                Sig(StepAt(steps, calls[i].s).fn).in[m] = t}}

HandledBy(i) ==
    /\ Cardinality(ErrCalls) <= 1
    /\ pc \in {"defers", "returned", "panicked"} => Cardinality(ErrCalls) = 1
    /\ \A e \in ErrCalls :
          /\ e = i + 1
          /\ calls[e].s = ActiveHandler(calls[i].s)
          /\ Received(e, errorType) \subseteq {ErrorOf(i)}

C5_WhenFailed == \A i \in FailedPre : HandledBy(i)

C5_ErrorHandler == C5_WhenFailed /\ (FailedPre = {} => ErrCalls = {})

\* OnErr, Then (fails), OnErr: the first error handler has been called
C5_Witness ==
    /\ pc = "returned"
    /\ Len(steps) = 3
    /\ steps[1].typ = "ERR" /\ steps[2].typ = "PRE" /\ steps[3].typ = "ERR"
    /\ FailedPre # {}
    /\ \E e \in ErrCalls : calls[e].s = 1 /\ Received(e, errorType) # {}

(***************************************************************************)
(* C6: every handler receives, for each of its parameter types, the value  *)
(* supplied by the most recent earlier step of the chain that provides     *)
(* that type: an Arg declaration (bound from Run's arguments), a Set or    *)
(* SetAs value, or an output of a Then handler.                            *)
(***************************************************************************)
\* The value Run binds for the Arg declaration at step j
ArgVal(j) ==
    LET n == Cardinality({m \in 1..j : steps[m].typ = "ARG"})
    IN IF argValues[n] = "nil" THEN Zero(steps[j].valTyp)
       ELSE Value("arg", steps[j].valTyp, n)

\* The call of the PRE handler at step j, if it has been called
CallOf(j) == {k \in DOMAIN calls : IsPreCall(calls[k]) /\ calls[k].s = j}

\* Step j supplies a value of type t
Provides(j, t) ==
    \/ steps[j].typ = "ARG" /\ steps[j].valTyp = t
    \/ steps[j].typ = "VALUE" /\ t \in {steps[j].valTyp, steps[j].val.rt}
    \/ /\ steps[j].typ = "PRE"
       /\ t \in Range(Sig(steps[j].fn).out)
       /\ \A k \in CallOf(j) : calls[k].res # "panic"

SuppliedBy(j, t) ==
    IF steps[j].typ = "ARG" THEN ArgVal(j)
    ELSE IF steps[j].typ = "VALUE" THEN steps[j].val
    ELSE OutValue(j, t, calls[CHOOSE k \in CallOf(j) : TRUE].res)

ParamType(i, n) == Sig(StepAt(steps, calls[i].s).fn).in[n]

\* as claimed, for the handlers registered by Then
C6_MostRecentStep ==
    \A i \in DOMAIN calls : IsPreCall(calls[i]) =>
        \A n \in DOMAIN calls[i].in :
            LET from == {j \in 1..(calls[i].s - 1) : Provides(j, ParamType(i, n))}
            IN from # {} /\ calls[i].in[n] = SuppliedBy(Max(from), ParamType(i, n))

\* The bindings of type t made before the i-th call of this Run, each with
\* the time it was made at: Run binds the arguments of all Arg declarations
\* before it starts on the steps; the Set / SetAs values and the outputs of
\* the Then handlers as it reaches their steps; a nil error after the steps if
\* no error is pending; the outputs of the error handler and of the deferred
\* handlers as it calls them.  A recovered panic binds its PanicError.
Reached(i) == IF IsPreCall(calls[i]) THEN calls[i].s - 1 ELSE idx - 1

CallTime(k) ==
    LET K == Len(steps) + 1
    IN IF IsPreCall(calls[k]) THEN K + calls[k].s
       ELSE IF IsErrCall(calls[k]) THEN 2 * K
       ELSE 3 * K + k

CallBinds(k, t) ==
    IF calls[k].res = "panic"
    THEN t = errorType /\ calls[k].pv # PanicNil
    ELSE t \in Range(Sig(StepAt(steps, calls[k].s).fn).out)

Bindings(i, t) ==
    LET K == Len(steps) + 1
    IN {[at |-> j, v |-> ArgVal(j)] :
            j \in {m \in DOMAIN steps : steps[m].typ = "ARG" /\ steps[m].valTyp = t}}
       \cup {[at |-> K + j, v |-> steps[j].val] :
            j \in {m \in 1..Reached(i) : steps[m].typ = "VALUE"
                                        /\ t \in {steps[m].valTyp, steps[m].val.rt}}}
       \cup {[at |-> CallTime(k),
              v  |-> IF calls[k].res = "panic" THEN ErrorOf(k)
                     ELSE OutValue(calls[k].s, t, calls[k].res)] :
            k \in {m \in 1..(i - 1) : CallBinds(m, t)}}
       \cup (IF IsPostCall(calls[i]) /\ t = errorType /\ ErrCalls = {}
             THEN {[at |-> 2 * K, v |-> Zero(errorType)]} ELSE {})

Latest(B) == CHOOSE b \in B : \A c \in B : c.at <= b.at

\* amended: every handler receives, for each of its parameter types, the
\* value most recently bound to that type at the time of the call
C6_LatestBinding ==
    \A i \in DOMAIN calls : \A n \in DOMAIN calls[i].in :
        /\ Bindings(i, ParamType(i, n)) # {}
        /\ calls[i].in[n] = Latest(Bindings(i, ParamType(i, n))).v

\* a Then handler was given the value of a Set step although an Arg
\* declaration of that type stands between the two
C6_Witness ==
    \E i \in DOMAIN calls : \E n \in DOMAIN calls[i].in :
        /\ IsPreCall(calls[i])
        /\ calls[i].in[n].k = "imm"
        /\ \E j \in 1..(calls[i].s - 1) :
              /\ steps[j].typ = "ARG" /\ steps[j].valTyp = ParamType(i, n)
              /\ \E v \in 1..(j - 1) : steps[v].typ = "VALUE" /\ steps[v].val = calls[i].in[n]

(***************************************************************************)
(* C7: when a PRE handler panics, the chain aborts as for a returned       *)
(* error; the active error handler receives a PanicError whose Val is the  *)
(* panicked value and whose MiddlewareStack lists exactly the functions    *)
(* invoked so far in this Run, most recent first, beginning with the       *)
(* panicking function; the deferred handlers registered before the panic   *)
(* are not in that stack and still run afterwards.                         *)
(***************************************************************************)
PanicDelivered(i) ==
    \A e \in ErrCalls : \A v \in Received(e, errorType) :
        /\ v.k = "panic"
        /\ v.pv = calls[i].pv
        /\ v.mw = Reverse(CalledSteps(SubSeq(calls, 1, i)))
        /\ v.mw[1] = calls[i].s
        /\ \A n \in DOMAIN v.mw : StepAt(steps, v.mw[n]).typ = "PRE"

C7_PanicCaptured ==
    \A i \in DOMAIN calls : (IsPreCall(calls[i]) /\ calls[i].res = "panic") =>
        /\ AbortedAt(i)
        /\ pc \in {"defers", "returned", "panicked"} =>
              \E e \in ErrCalls : calls[e].s = ActiveHandler(calls[i].s)
        /\ PanicDelivered(i)

\* Then, Defer, Then (panics): the deferred handler ran after the default
\* error handler got the PanicError
C7_Witness ==
    /\ pc = "returned"
    /\ Len(steps) = 3
    /\ steps[1].typ = "PRE" /\ steps[2].typ = "POST" /\ steps[3].typ = "PRE"
    /\ \E i \in DOMAIN calls : IsPreCall(calls[i]) /\ calls[i].res = "panic" /\ calls[i].s = 3
    /\ \E i \in DOMAIN calls : IsPostCall(calls[i]) /\ calls[i].s = 2
    /\ \E e \in ErrCalls : Received(e, errorType) # {}

(***************************************************************************)
(* Vocabulary of the properties of the route tree.                         *)
(***************************************************************************)
\* The segments of the h-th registered pattern, and of the requested path
PatternOf(h) == Split(Tail(registered[h]))
Requested    == Split(TrimPrefix(uri, <<"/">>))

Served == status # "none"

\* Segment text that occurs in no registered pattern
Fresh == <<"f">>

\* The canonical paths of a pattern, each with the parameters it binds: a
\* static segment stands for itself, :name for one fresh segment, :name* for
\* one or more
RECURSIVE Canonical(_)
Canonical(pat) ==
    IF Len(pat) = 0 THEN {[segs |-> <<>>, params |-> <<>>]}
    ELSE LET e == entryToInfo(Head(pat)) IN
         IF e.isStatic
         THEN {[segs |-> <<e.static>> \o c.segs, params |-> c.params] :
                  c \in Canonical(Tail(pat))}
         ELSE {[segs   |-> [i \in 1..n |-> Fresh] \o c.segs,
                params |-> (e.paramName :> Join([i \in 1..n |-> Fresh])) @@ c.params] :
                  c \in Canonical(Tail(pat)),
                  n \in IF e.greedy THEN 1..MaxSegs ELSE {1}}

\* The pattern matches the path: a static segment matches itself, :name any
\* one segment, :name* any one or more segments
RECURSIVE PatternMatches(_, _)
PatternMatches(pat, path) ==
    IF Len(pat) = 0 THEN Len(path) = 0
    ELSE IF Len(path) = 0 THEN FALSE
    ELSE LET e == entryToInfo(Head(pat)) IN
         IF e.isStatic THEN e.static = Head(path) /\ PatternMatches(Tail(pat), Tail(path))
         ELSE IF ~e.greedy THEN PatternMatches(Tail(pat), Tail(path))
         ELSE \E n \in 1..Len(path) :
                 PatternMatches(Tail(pat), SubSeq(path, n + 1, Len(path)))

\* static: 0, single-segment parameter: 1, greedy parameter: 2
SegRank(entry) ==
    IF entryToInfo(entry).isStatic THEN 0 ELSE IF ~entryToInfo(entry).greedy THEN 1 ELSE 2

\* At the first segment where the patterns p and q differ, p has priority
Beats(p, q) ==
    \E i \in 1..Min({Len(p), Len(q)}) :
        /\ \A j \in 1..(i - 1) : p[j] = q[j]
        /\ p[i] # q[i]
        /\ SegRank(p[i]) < SegRank(q[i])

(***************************************************************************)
(* C8: matching the canonical path of a registered pattern (each parameter *)
(* replaced by fresh text: one segment for a single-segment parameter,    *)
(* one or more for a greedy one)                                           *)
(* returns that pattern's handler, with each parameter name bound to the   *)
(* text put in its place, whatever other patterns are registered.  Stated  *)
(* for the paths that are a canonical path of one registered pattern only. *)
(***************************************************************************)
CanonicalFor(h) == {c \in Canonical(PatternOf(h)) : uri = Str(c.segs)}

C8_CanonicalMatch ==
    Served =>
        \A h \in DOMAIN registered : \A c \in CanonicalFor(h) :
            (\A g \in DOMAIN registered : g # h => CanonicalFor(g) = {})
                => matched = h /\ params = c.params

\* with two patterns registered, the canonical path of the second one, which
\* has a parameter, was matched to its handler
C8_Witness ==
    /\ status = "served"
    /\ Len(registered) = 2
    /\ matched = 2
    /\ \E c \in CanonicalFor(2) : c.params # <<>> /\ params = c.params

(***************************************************************************)
(* C9: for any registered patterns and any request path Match ends with a  *)
(* registered handler or nil and never fails abnormally, in particular     *)
(* when the path has fewer segments than the part of a pattern after a     *)
(* greedy parameter; when nothing matches, the router answers 404.         *)
(***************************************************************************)
C9_MatchNeverFails ==
    /\ status # "panic"
    /\ matched \in 0..Len(registered)
    /\ Served => (matched = 0 <=> status = "404")

\* The h-th pattern has a greedy parameter at i, and more segments after it
\* than the requested path has after its i-th
ShortForGreedy(h) ==
    \E i \in DOMAIN PatternOf(h) :
        /\ SegRank(PatternOf(h)[i]) = 2
        /\ i <= Len(Requested)
        /\ Len(Requested) - i < Len(PatternOf(h)) - i

\* a 404 for a path shorter than a registered pattern with a greedy parameter
C9_Witness ==
    /\ status = "404"
    /\ \E h \in DOMAIN registered : ShortForGreedy(h)

(***************************************************************************)
(* C10: among the registered patterns that match the request path, Match   *)
(* selects by priority: at the first segment where two candidates differ a *)
(* static segment beats a single-segment parameter and a single-segment    *)
(* parameter beats a greedy one, whatever the order of registration.       *)
(***************************************************************************)
Candidates == {h \in DOMAIN registered : PatternMatches(PatternOf(h), Requested)}

C10_Priority ==
    Served =>
        \A p \in Candidates : \A q \in Candidates :
            Beats(PatternOf(p), PatternOf(q)) => matched # q

\* the pattern registered second has priority over the first one, both match
\* the path, and the second one's handler was selected
C10_Witness ==
    /\ status = "served"
    /\ Candidates = {1, 2}
    /\ Beats(PatternOf(2), PatternOf(1))
    /\ matched = 2

(***************************************************************************)
(* Vocabulary of the properties of registration.                           *)
(***************************************************************************)
\* The parameter names of a pattern, one per parameter segment, in order
ParamNames(pat) ==
    LET ix == {i \in DOMAIN pat : ~entryToInfo(pat[i]).isStatic}
        nth(k) == CHOOSE i \in ix : Cardinality({j \in ix : j < i}) = k - 1
    IN [k \in 1..Cardinality(ix) |-> entryToInfo(pat[nth(k)]).paramName]

RepeatsParam(pat) ==
    \E i \in DOMAIN ParamNames(pat) : \E j \in DOMAIN ParamNames(pat) :
        i # j /\ ParamNames(pat)[i] = ParamNames(pat)[j]

GreedyCount(pat) == Cardinality({i \in DOMAIN pat : SegRank(pat[i]) = 2})

\* Two patterns that the same paths match: as many segments, the same
\* literal at each static position, parameters of the same kind at the same
\* positions
AmbiguousPair(p, q) ==
    /\ Len(p) = Len(q)
    /\ \A i \in DOMAIN p :
          /\ SegRank(p[i]) = SegRank(q[i])
          /\ SegRank(p[i]) = 0 => entryToInfo(p[i]).static = entryToInfo(q[i]).static

(***************************************************************************)
(* C11: after any sequence of Register calls on one tree, no two distinct  *)
(* registered patterns are an ambiguous pair (same length, same literals   *)
(* at the static positions, parameters at the same positions), whichever   *)
(* of the two was registered last.                                         *)
(***************************************************************************)
C11_NoAmbiguousPair ==
    \A g \in DOMAIN registered : \A h \in DOMAIN registered :
        g # h => ~AmbiguousPair(PatternOf(g), PatternOf(h))

\* a registration that would have made an ambiguous pair with the pattern
\* registered before it was rejected
C11_Witness ==
    /\ lastReg = "err"
    /\ Len(registered) = 2
    /\ \E pattern \in ShortPatterns :
          /\ HasPrefix(pattern, <<"/">>)
          /\ pattern # registered[2]
          /\ AmbiguousPair(Split(Tail(pattern)), PatternOf(2))
          /\ ~MuxRegister(tree, pattern, 3).ok
          /\ ParamNames(PatternOf(2)) # <<>>

(***************************************************************************)
(* C12: Register rejects every pattern in which one parameter name occurs  *)
(* more than once, whatever was registered before: no registered pattern   *)
(* repeats a parameter name.                                               *)
(***************************************************************************)
C12_NoRepeatedParam ==
    \A h \in DOMAIN registered : ~RepeatsParam(PatternOf(h))

\* on a tree that holds a pattern, every pattern of the pool that repeats a
\* parameter name would be rejected
C12_Witness ==
    /\ Len(registered) = 1
    /\ \A pattern \in ShortPatterns :
          (HasPrefix(pattern, <<"/">>) /\ RepeatsParam(Split(Tail(pattern))))
              => ~MuxRegister(tree, pattern, 2).ok

(***************************************************************************)
(* C13: Register rejects every pattern with more than one greedy           *)
(* parameter, whatever was registered before: no registered pattern has    *)
(* two greedy parameters.                                                  *)
(***************************************************************************)
C13_OneGreedy ==
    \A h \in DOMAIN registered : GreedyCount(PatternOf(h)) <= 1

\* on a tree that holds a pattern, every pattern of the pool with two greedy
\* parameters would be rejected
C13_Witness ==
    /\ Len(registered) = 1
    /\ \A pattern \in ShortPatterns :
          (HasPrefix(pattern, <<"/">>) /\ GreedyCount(Split(Tail(pattern))) > 1)
              => ~MuxRegister(tree, pattern, 2).ok

(***************************************************************************)
(* C15: Match writes into the params map only the parameters of the        *)
(* pattern it returns: when it returns nil the map is as it was before the *)
(* call (ServeHTTP hands it an empty map), and when it returns a handler   *)
(* the map binds exactly the parameter names of that handler's pattern.    *)
(***************************************************************************)
C15_OnlyMatchedParams ==
    /\ status = "404" => params = <<>>
    /\ status = "served" => DOMAIN params = Range(ParamNames(PatternOf(matched)))

\* a pattern with a greedy and a single-segment parameter was matched, and
\* other parameters are registered in the tree
C15_Witness ==
    /\ status = "served"
    /\ Cardinality(DOMAIN params) = 2
    /\ GreedyCount(PatternOf(matched)) = 1
    /\ DOMAIN params = Range(ParamNames(PatternOf(matched)))
    /\ \E g \in DOMAIN registered :
          Range(ParamNames(PatternOf(g))) \ DOMAIN params # {}

(***************************************************************************)
(* Vocabulary of the properties of the Router.                             *)
(***************************************************************************)
\* The segments of the pattern of the route h
RouteSegs(h) == Split(Tail(routes[h].pattern))

\* The routes registered on the router r for the method mth
RoutesIn(r, mth) == {h \in DOMAIN routes : routes[h].router = r /\ routes[h].method = mth}

\* The route tree of the router r for the method mth; nil is <<>>
TreeOf(r, mth) ==
    IF mth = <<"*">> THEN routers[r].anyMethod
    ELSE IF mth \in DOMAIN routers[r].byMethod THEN <<routers[r].byMethod[mth]>>
    ELSE <<>>

\* The upper-case method names routes are registered under
UpperMethods == {ToUpper(m) : m \in SiteMethods}

\* Match on the tree of the route h returns h for the path u
MatchedIn(h, u) ==
    \A o \in MatchNilable(TreeOf(routes[h].router, routes[h].method), u, <<>>) :
        ~o.panic /\ o.h = h

\* On(mth, path, ...) on the router r would register the route
CanRegister(r, mth, path) ==
    LET rt == getOrAllocateMux(routers[r], mth)
    IN MuxRegister(MuxOf(rt, mth), path, Len(routes) + 1).ok

(***************************************************************************)
(* C14: a pattern is registered at most once in the route tree of one      *)
(* method: registering it again fails, and a failed On leaves the routes   *)
(* and what every tree matches as they were, so that the handler           *)
(* registered first stays the one matched; the pattern can still be        *)
(* registered under another method of the same router, whose tree is       *)
(* separate.                                                               *)
(***************************************************************************)
C14_Unique ==
    /\ \A g \in DOMAIN routes : \A h \in DOMAIN routes :
          (g # h /\ routes[g].router = routes[h].router
                 /\ routes[g].pattern = routes[h].pattern)
              => routes[g].method # routes[h].method
    /\ \A h \in DOMAIN routes :
          /\ ~CanRegister(routes[h].router, routes[h].method, routes[h].pattern)
          /\ \A mth \in UpperMethods :
                RoutesIn(routes[h].router, mth) = {}
                    => CanRegister(routes[h].router, mth, routes[h].pattern)

C14_FailedOnKeeps ==
    (called'.op = "On" /\ ~called'.ok) =>
        /\ routes' = routes
        /\ \A r \in DOMAIN routers : \A mth \in UpperMethods : \A u \in SitePaths :
              MatchNilable(TreeOf(r, mth), u, <<>>)' = MatchNilable(TreeOf(r, mth), u, <<>>)

C14_NoRepeatedEntry == []C14_Unique /\ [][C14_FailedOnKeeps]_vars

\* On has just failed for a method and pattern that the router has a route
\* for, which is still the one matched for a path
C14_Witness ==
    /\ called.op = "On" /\ ~called.ok
    /\ \E h \in DOMAIN routes :
          /\ routes[h].router = called.r
          /\ <<routes[h].method, routes[h].pattern>> = called.arg
          /\ \E u \in SitePaths : MatchedIn(h, u)

(***************************************************************************)
(* C16: a request is served by a registration for its own method whenever  *)
(* one matches its path, and by an Any ("*") registration only when no     *)
(* registration for its method matches; the method names of the request    *)
(* and of the registration are compared without regard to case.            *)
(***************************************************************************)
RequestSegs == Split(TrimPrefix(request.uri, <<"/">>))

\* The routes of the root Router for the method mth that match the request
MatchingRoutes(mth) ==
    {h \in RoutesIn(1, mth) : PatternMatches(RouteSegs(h), RequestSegs)}

C16_MethodBeforeAny ==
    response.status # "none" =>
        /\ MatchingRoutes(ToUpper(request.method)) # {}
              => /\ response.status = "served"
                 /\ response.h \in RoutesIn(1, ToUpper(request.method))
        /\ (response.status = "served" /\ response.h \in RoutesIn(1, <<"*">>))
              => MatchingRoutes(ToUpper(request.method)) = {}

\* a request with a lower-case method name that a route for the method and a
\* route for any method match, served by the route for the method
C16_Witness ==
    /\ response.status = "served"
    /\ request.method # ToUpper(request.method)
    /\ response.h \in MatchingRoutes(ToUpper(request.method))
    /\ MatchingRoutes(<<"*">>) # {}

(***************************************************************************)
(* C17: sub-routers nest.  For a router created by                         *)
(* root.SubRouter(p1).SubRouter(p2), with p1 and p2 beginning with "/", a  *)
(* request whose path is p1 followed by p2 followed by a path u that the   *)
(* inner router matches to a handler is matched to that handler with the   *)
(* same parameters.                                                        *)
(***************************************************************************)
\* The router q was created by SubRouter on the router r with the prefix
\* stored as p
IsSubRouter(r, p, q) == p \in DOMAIN routers[r].subRouters /\ routers[r].subRouters[p] = q

\* What ServeHTTP makes of the outcome o of router.match
ResponseOf(o) ==
    [h |-> IF o.panic THEN -1 ELSE o.h, params |-> o.params,
     status |-> IF o.panic THEN "panic" ELSE IF o.h # 0 THEN "served" ELSE "404"]

C17_SubRoutersNest ==
    response.status # "none" =>
        \A s \in DOMAIN routers : \A q \in DOMAIN routers :
        \A p1 \in DOMAIN routers[1].subRouters : \A p2 \in DOMAIN routers[s].subRouters :
        \A u \in SitePaths :
            (/\ IsSubRouter(1, p1, s) /\ IsSubRouter(s, p2, q)
             /\ HasPrefix(p1, <<"/">>) /\ HasPrefix(p2, <<"/">>)
             /\ request.uri = TrimRight(p1) \o TrimRight(p2) \o u
             /\ \A o \in routerMatch(q, request.method, u, <<>>) : ~o.panic /\ o.h # 0)
                => response \in {ResponseOf(o) : o \in routerMatch(q, request.method, u, <<>>)}

\* a request served by a route of a sub-router of a sub-router of the root,
\* with a parameter bound
C17_Witness ==
    /\ response.status = "served"
    /\ response.params # <<>>
    /\ \E s \in DOMAIN routers :
       \E p1 \in DOMAIN routers[1].subRouters : \E p2 \in DOMAIN routers[s].subRouters :
          /\ IsSubRouter(1, p1, s)
          /\ IsSubRouter(s, p2, routes[response.h].router)

(***************************************************************************)
(* C18: among the sub-router prefixes of one router none is a string       *)
(* prefix of another, so that at most one of them is a prefix of any       *)
(* request path; a SubRouter call whose prefix equals, is a prefix of, or  *)
(* has as a prefix, a prefix of the router fails and registers nothing.    *)
(***************************************************************************)
Prefixes(r) == DOMAIN routers[r].subRouters

C18_PrefixFree ==
    \A r \in DOMAIN routers :
        /\ \A p \in Prefixes(r) : \A q \in Prefixes(r) : HasPrefix(p, q) => p = q
        /\ \A u \in SitePaths : Cardinality({p \in Prefixes(r) : HasPrefix(u, p)}) <= 1

C18_ConflictFails ==
    called'.op = "SubRouter" =>
        LET p == called'.arg[1]
            clash == \E e \in Prefixes(called'.r) : HasPrefix(e, p) \/ HasPrefix(p, e)
        IN /\ called'.ok = ~clash
           /\ ~called'.ok => routers' = routers
           /\ called'.ok => DOMAIN routers'[called'.r].subRouters = Prefixes(called'.r) \cup {p}

C18_NoPrefixConflict == []C18_PrefixFree /\ [][C18_ConflictFails]_vars

\* SubRouter has just failed for a prefix that is longer than a prefix of
\* the router and begins with it
C18_Witness ==
    /\ called.op = "SubRouter" /\ ~called.ok
    /\ \E e \in Prefixes(called.r) : e # called.arg[1] /\ HasPrefix(called.arg[1], e)

(***************************************************************************)
(* C19: Set, SetAs, Use and OnErr on a router change the base chain of     *)
(* that router only: the chains of the routes already registered and the   *)
(* other routers, among them the sub-routers already created, stay as      *)
(* they are; a route registered later starts with the base chain its       *)
(* router has then, and a sub-router created later starts from it.         *)
(***************************************************************************)
BaseOps == {"Set", "SetAs", "Use", "OnErr"}

C19_Step ==
    /\ \A h \in DOMAIN routes : h \in DOMAIN routes' /\ routes'[h] = routes[h]
    /\ called'.op \in BaseOps =>
          /\ routes' = routes
          /\ DOMAIN routers' = DOMAIN routers
          /\ \A q \in DOMAIN routers : q # called'.r => routers'[q] = routers[q]
          /\ routers'[called'.r] = [routers[called'.r] EXCEPT !.base = routers'[called'.r].base]
          /\ IsPrefix(routers[called'.r].base, routers'[called'.r].base)
    /\ (called'.op = "On" /\ called'.ok) =>
          /\ Len(routes') = Len(routes) + 1
          /\ routes'[Len(routes')].router = called'.r
          /\ IsPrefix(routers[called'.r].base, routes'[Len(routes')].chain)
          /\ \A q \in DOMAIN routers : routers'[q].base = routers[q].base
    /\ (called'.op = "SubRouter" /\ called'.ok) =>
          /\ Len(routers') = Len(routers) + 1
          /\ routers'[Len(routers')].base = routers[called'.r].base
          /\ \A q \in DOMAIN routers : routers'[q].base = routers[q].base

AllFuncs == Funcs \cup {"useE"}

ParamTypes(fn)  == Range(Sig(fn).in)
OutputTypes(fn) == Range(Sig(fn).out)

\* The types available from the steps of the chain c
AvailableFrom(c) ==
    {c[i].valTyp : i \in {j \in DOMAIN c : c[j].typ = "ARG"}}
        \cup {c[i].valTyp : i \in {j \in DOMAIN c : c[j].typ = "VALUE"}}
        \cup {c[i].val.rt : i \in {j \in DOMAIN c : c[j].typ = "VALUE"}}
        \cup UNION {OutputTypes(c[i].fn) : i \in {j \in DOMAIN c : c[j].typ = "PRE"}}

\* The types available to the i-th handler of c.Then(hs...)
AvailableTo(c, hs, i) ==
    AvailableFrom(c) \cup UNION {OutputTypes(hs[j]) : j \in 1..(i - 1)}

C20_Decides ==
    /\ \A hs \in SeqsUpTo(AllFuncs, MaxThen) \ {<<>>} :
          ThenSteps(typesAvailable(steps), hs).ok
              <=> \A i \in DOMAIN hs : ParamTypes(hs[i]) \subseteq AvailableTo(steps, hs, i)
    /\ \A h \in AllFuncs :
          OutputTypes(h) = {} =>
              (CanAddHandler(steps, h)
                  <=> ParamTypes(h) \subseteq AvailableFrom(steps) \cup {errorType})

C20_Step ==
    (pc = "build" /\ pc' = "build") =>
        /\ rejected' => steps' = steps
        /\ ~rejected' =>
              /\ IsPrefix(steps, steps')
              /\ \A i \in (Len(steps) + 1)..Len(steps') :
                    /\ steps'[i].typ = "PRE" =>
                          ParamTypes(steps'[i].fn)
                              \subseteq AvailableFrom(SubSeq(steps', 1, i - 1))
                    /\ steps'[i].typ \in {"ERR", "POST"} =>
                          ParamTypes(steps'[i].fn)
                              \subseteq AvailableFrom(SubSeq(steps', 1, i - 1)) \cup {errorType}

C20_AvailableTypes == []C20_Decides /\ [][C20_Step]_vars

\* a chain whose last handler takes the output of the handler before it,
\* built on a SetAs value whose runtime type differs from its declared type
C20_Witness ==
    /\ pc = "build" /\ ~rejected
    /\ Len(steps) = 3
    /\ steps[1].typ = "VALUE" /\ steps[1].val.rt # steps[1].valTyp
    /\ steps[2].typ = "PRE" /\ steps[3].typ = "PRE"
    /\ ParamTypes(steps[3].fn) # {}
    /\ ParamTypes(steps[3].fn) \subseteq OutputTypes(steps[2].fn)
    /\ ~(ParamTypes(steps[3].fn) \subseteq AvailableFrom(SubSeq(steps, 1, 1)))
    /\ ThenSteps(typesAvailable(SubSeq(steps, 1, 1)), <<"useE">>).ok

(***************************************************************************)
(* Vocabulary of the properties of Run's arguments.                        *)
(***************************************************************************)
\* The declared Arg types of the chain, in declaration order
Declared == [n \in DOMAIN StepsOfKind(steps, "ARG") |->
                steps[StepsOfKind(steps, "ARG")[n]].valTyp]

RunCalled == pc # "build"

RunFailed == pc = "returned" /\ ret = "error"

\* A nil argument is acceptable for the declared type t
NilFits(t) == t \in {"error", "P"}

\* A non-nil argument of type rt can be converted to the declared type t
Converts(rt, t) ==
    \/ rt = t
    \/ rt = "E" /\ t = "error"
    \/ rt = "C" /\ t = "A"

(***************************************************************************)
(* C21, as claimed: Run returns a non-nil error whenever there are too few *)
(* or too many arguments, or the argument at some position is not of the   *)
(* type declared at that position (a nil counting as of that type where    *)
(* nil is acceptable).                                                     *)
(***************************************************************************)
C21_ExactTypes ==
    RunCalled =>
        (~(/\ Len(argValues) = Len(Declared)
           /\ \A n \in DOMAIN Declared :
                 IF argValues[n] = "nil" THEN NilFits(Declared[n])
                 ELSE argValues[n] = Declared[n])
         => RunFailed)

(***************************************************************************)
(* C21, amended: Run returns a non-nil error exactly when there are too    *)
(* few or too many arguments, or the argument at some position is nil      *)
(* where the declared type admits no nil, or is a value that cannot be     *)
(* converted to the type declared at that position.                        *)
(***************************************************************************)
C21_ArgsChecked ==
    RunCalled =>
        (RunFailed <=>
            ~(/\ Len(argValues) = Len(Declared)
              /\ \A n \in DOMAIN Declared :
                    IF argValues[n] = "nil" THEN NilFits(Declared[n])
                    ELSE Converts(argValues[n], Declared[n])))

\* Run returned an error for two arguments against two declarations, the
\* first argument converted to its declared type, the second of a type that
\* does not convert
C21_Witness ==
    /\ RunFailed
    /\ Len(Declared) = 2 /\ Len(argValues) = 2
    /\ Declared[1] = "A" /\ argValues[1] = "C"
    /\ argValues[2] # "nil" /\ ~Converts(argValues[2], Declared[2])

(***************************************************************************)
(* C22: a nil argument of Run is accepted exactly when the Arg type        *)
(* declared at its position is an interface or a pointer: for any other    *)
(* declared type Run returns an error; where all arguments are otherwise   *)
(* in order Run does not return an error, and the handlers taking that     *)
(* type receive a nil of the declared type.                                *)
(***************************************************************************)
\* The position of the last Arg declaration of type t (0 if there is none)
LastDeclared(t) == Max({0} \cup {n \in DOMAIN Declared : Declared[n] = t})

NilArgs == {n \in DOMAIN Declared \cap DOMAIN argValues : argValues[n] = "nil"}

C22_NilArguments ==
    RunCalled =>
        /\ \A n \in NilArgs : ~(IsInterface(Declared[n]) \/ IsPointer(Declared[n])) => RunFailed
        /\ (/\ Len(argValues) = Len(Declared)
            /\ \A n \in NilArgs : IsInterface(Declared[n]) \/ IsPointer(Declared[n])
            /\ \A n \in DOMAIN Declared \ NilArgs : Converts(argValues[n], Declared[n]))
           => ~RunFailed
        /\ \A i \in DOMAIN calls : \A n \in DOMAIN calls[i].in :
              (IsPreCall(calls[i]) /\ LastDeclared(ParamType(i, n)) \in NilArgs)
                  => calls[i].in[n] = Zero(ParamType(i, n))

\* Run was given nil for a pointer and for an interface declaration, and the
\* handler taking the pointer type received a nil pointer
C22_Witness ==
    /\ argValues = <<"nil", "nil">>
    /\ \E i \in DOMAIN calls :
          IsPreCall(calls[i]) /\ steps[calls[i].s].fn = "useP" /\ calls[i].in = <<Zero("P")>>
    /\ \E d \in {Declared} : "error" \in Range(d)

(***************************************************************************)
(* C23: a deferred handler that takes an error receives nil when no        *)
(* handler called before it failed, and the error of the failing Then      *)
(* handler (the error it returned, or the PanicError of its panic) when    *)
(* the chain was aborted.                                                  *)
(***************************************************************************)
NoneFailedBefore(i) == \A k \in 1..(i - 1) : ~Failed(calls[k])

C23_DeferredError ==
    \A i \in DOMAIN calls : IsPostCall(calls[i]) =>
        \A v \in Received(i, errorType) :
            /\ NoneFailedBefore(i) => v = Zero(errorType)
            /\ FailedPre # {} => v = ErrorOf(Min(FailedPre))

\* a deferred handler received the error a Then handler returned, after the
\* error handler registered by OnErr had run
C23_Witness ==
    \E i \in DOMAIN calls : \E f \in FailedPre : \E e \in ErrCalls :
        /\ IsPostCall(calls[i])
        /\ calls[f].res = "err"
        /\ calls[e].s # 0 /\ e < i
        /\ Received(i, errorType) = {ErrorOf(f)}

(***************************************************************************)
(* C24: a deferred handler registered right after a Then handler runs      *)
(* exactly once in every Run that gets as far as its Defer step, after the *)
(* error handler if one is called, whether or not a handler fails.         *)
(***************************************************************************)
\* The Defer steps that directly follow a Then handler
DefersAfterThen == {j \in DOMAIN steps : j > 1 /\ steps[j].typ = "POST" /\ steps[j - 1].typ = "PRE"}

RunsOf(j) == {i \in DOMAIN calls : IsPostCall(calls[i]) /\ calls[i].s = j}

RunEnded == pc \in {"returned", "panicked"} /\ ret # "error"

C24_DeferRunsOnce ==
    \A j \in DefersAfterThen :
        /\ Cardinality(RunsOf(j)) <= 1
        /\ \A i \in RunsOf(j) : \A e \in ErrCalls : e < i
        /\ (RunEnded /\ j \in Range(postSteps)) => Cardinality(RunsOf(j)) = 1

\* Then, Defer, Then (returns an error): the deferred handler ran once, after
\* the error handler
C24_Witness ==
    /\ pc = "returned"
    /\ 2 \in DefersAfterThen
    /\ \E f \in FailedPre : calls[f].s = 3 /\ calls[f].res = "err"
    /\ ErrCalls # {}
    /\ Cardinality(RunsOf(2)) = 1

(***************************************************************************)
(* C25: for a Before handler and the After handler added with it (a Then   *)
(* step directly followed by a Defer step): After runs exactly once in a   *)
(* Run in which Before was called and returned without error, even if a    *)
(* later handler fails, and does not run if Before returned an error or    *)
(* was never reached.                                                      *)
(***************************************************************************)
Wrapped == {j \in DOMAIN steps : steps[j].typ = "PRE" /\ j < Len(steps)
                                   /\ steps[j + 1].typ = "POST"}

C25_AfterIffBefore ==
    \A j \in Wrapped :
        /\ Cardinality(RunsOf(j + 1)) <= 1
        /\ (RunEnded /\ \E b \in CallOf(j) : calls[b].res = "ok")
               => Cardinality(RunsOf(j + 1)) = 1
        /\ (CallOf(j) = {} \/ \E b \in CallOf(j) : calls[b].res = "err")
               => RunsOf(j + 1) = {}

\* Before returned without error, the handler after the pair returned an
\* error, and After ran once
C25_Witness ==
    /\ pc = "returned"
    /\ 1 \in Wrapped
    /\ \E b \in CallOf(1) : calls[b].res = "ok"
    /\ \E f \in FailedPre : calls[f].s = 3 /\ calls[f].res = "err"
    /\ Cardinality(RunsOf(2)) = 1

(***************************************************************************)
(* C26: Wrap accepts a nil Before: with an After handler that Defer        *)
(* accepts, the construction succeeds and adds only After, as a deferred   *)
(* handler.                                                                *)
(***************************************************************************)
WrapsNilBefore(after) ==
    \/ WrapApply(NilHandler, after)
    \/ MiddlewareWrap(NilHandler, after)

C26_Step ==
    \A after \in Afters :
        (CanAddHandler(steps, after) /\ WrapsNilBefore(after))
            => /\ ~rejected'
               /\ steps' = Append(steps, Step("POST", after, "func", Invalid))

C26_NilBefore == [][C26_Step]_vars

\* a chain that consists of the After handler of a Wrap with nil Before
C26_Witness ==
    /\ ~rejected
    /\ Len(steps) = 1
    /\ steps[1].typ = "POST" /\ steps[1].fn \in Afters

(***************************************************************************)
(* C30: over any sequence of WriteHeader and Write calls on a wrapped      *)
(* ResponseWriter, Code is 0 until the first call, then is the status of   *)
(* that call (the code given to WriteHeader, 200 for a Write) and never    *)
(* changes again; Size is the sum of the byte counts the embedded writer   *)
(* returned.                                                               *)
(***************************************************************************)
RECURSIVE Reported(_)
Reported(w) == IF w = <<>> THEN 0 ELSE w[Len(w)].n + Reported(SubSeq(w, 1, Len(w) - 1))

C30_CodeAndSize ==
    /\ wire = <<>> => rw.Code = 0
    /\ wire # <<>> => rw.Code = (IF wire[1].op = "WriteHeader" THEN wire[1].code ELSE 200)
    /\ rw.Size = Reported(wire)

C30_CodeStays == rw.Code # 0 => rw'.Code = rw.Code

C30_FirstCodeTotalSize == []C30_CodeAndSize /\ [][C30_CodeStays]_vars

\* Write, WriteHeader(404), Write: Code is 200, Size the 3 bytes of the two
\* Writes
C30_Witness ==
    /\ Len(wire) = 3
    /\ wire[1].op = "Write" /\ wire[2] = [op |-> "WriteHeader", code |-> 404, n |-> 0]
    /\ wire[3].op = "Write"
    /\ rw = [Size |-> 3, Code |-> 200]

(***************************************************************************)
(* C29: when a handler returns Done, the chain aborts as for any other     *)
(* error (no later Then handler is called, the deferred handlers           *)
(* registered before it still run, after the error handler), and           *)
(* HandleError or HandleErrorJson, if it is the error handler in force,    *)
(* writes no status and no body and sets no error on the log entry.        *)
(***************************************************************************)
ReturnedDone == {i \in DOMAIN calls : IsPreCall(calls[i]) /\ steps[calls[i].s].fn = "done"}

\* What the error handler called in calls[e] did with the error it was given
EffectOf(e) ==
    LET fn  == StepAt(steps, calls[e].s).fn
        err == ErrorValue(steps, calls[e].in[1])
    IN IF fn = "HandleError" THEN HandleError(err)
       ELSE IF fn = "HandleErrorJson" THEN HandleErrorJson(err)
       ELSE NoEffect

C29_DoneAborts ==
    \A i \in ReturnedDone :
        /\ AbortedAt(i)
        /\ \A e \in ErrCalls : EffectOf(e) = NoEffect

\* HandleError was called for a Done returned by the handler after a Defer
\* step, and the deferred handler ran
C29_Witness ==
    /\ pc = "returned"
    /\ \E i \in ReturnedDone : calls[i].s = 3
    /\ \E e \in ErrCalls : StepAt(steps, calls[e].s).fn = "HandleError"
                           /\ ErrorValue(steps, calls[e].in[1]) = Done
    /\ \E j \in DOMAIN calls : IsPostCall(calls[j])

(***************************************************************************)
(* C28: two Runs of the same chain whose steps interleave arbitrarily do   *)
(* not share bindings, deferred lists or executed-step stacks: every value *)
(* a handler receives in one Run was bound by an argument, value step or   *)
(* handler output of that same Run.  Stated of the call of Run that takes  *)
(* the next step, which is either of the two.                              *)
(***************************************************************************)
OwnBindings ==
    \A i \in DOMAIN calls : \A n \in DOMAIN calls[i].in :
        calls[i].in[n] \in {b.v : b \in Bindings(i, ParamType(i, n))}

\* the deferred list holds the Defer steps this call has passed, the stack
\* the steps this call has called
OwnLists ==
    /\ postSteps = SelectSeq([j \in 1..(idx - 1) |-> j], LAMBDA j : steps[j].typ = "POST")
    /\ stack = CalledSteps(calls)

C28_RunsIsolated == OwnBindings /\ OwnLists

\* both calls are inside the loop over the steps, each has called a handler,
\* the first handler ended differently in the two, and this one has handed a
\* bound value to a handler
C28_Witness ==
    /\ other # <<>>
    /\ pc = "loop" /\ other.pc = "loop"
    /\ calls # <<>> /\ other.calls # <<>>
    /\ calls[1].res # other.calls[1].res
    /\ \E i \in DOMAIN calls : calls[i].in # <<>>

(***************************************************************************)
(* C27: Arg, Set, SetAs, Then, OnErr and Defer never modify the chain they *)
(* are called on: after deriving any number of chains from a base chain,   *)
(* the base and every derived chain run exactly the steps they had when    *)
(* created; Run does not change the chain either, so repeated Runs with    *)
(* the same arguments invoke the same sequence of handlers.                *)
(***************************************************************************)
\* every Func made still has the steps it was made with
ChainsKept == \A f \in DOMAIN funcs : View(arrays, funcs[f]) = funcs[f].made

\* a Run of a Func goes through the steps the Func was made with
RunsAsMade ==
    recv # 0 =>
        /\ steps = funcs[recv].made
        /\ \A i \in DOMAIN calls : calls[i].s \in {0} \cup DOMAIN funcs[recv].made

\* the handlers a call of Run has invoked so far, with how each ended
Invoked(l) ==
    [i \in DOMAIN l.calls |->
        [fn |-> StepAt(l.steps, l.calls[i].s).fn, s |-> l.calls[i].s,
         res |-> l.calls[i].res, pv |-> l.calls[i].pv]]

\* the second Run of a Func with the same arguments: as long as the
\* handlers end as they did in the first, it invokes the same handlers, and
\* it ends as the first did
SameAgain ==
    (other # <<>> /\ other.recv = recv /\ other.argValues = argValues) =>
        /\ \A k \in DOMAIN calls :
              (k <= Len(other.calls)
               /\ \A j \in 1..(k - 1) : Invoked(RunLocals)[j] = Invoked(other)[j])
              => /\ Invoked(RunLocals)[k].fn = Invoked(other)[k].fn
                 /\ Invoked(RunLocals)[k].s = Invoked(other)[k].s
        /\ (pc \in {"returned", "panicked"} /\ Invoked(RunLocals) = Invoked(other))
              => ret = other.ret
        /\ (pc \in {"returned", "panicked"} /\ Len(calls) < Len(other.calls))
              => Invoked(RunLocals) # SubSeq(Invoked(other), 1, Len(calls))

\* a step of a Run makes no Func and writes to no array
RunKeepsChains == pc # "build" => UNCHANGED <<arrays, funcs>>

C27_Immutable == [](ChainsKept /\ RunsAsMade /\ SameAgain) /\ [][RunKeepsChains]_vars

\* Extends(d, b): Func d has the steps of Func b and more
Extends(d, b) ==
    /\ Len(funcs[d].made) > Len(funcs[b].made)
    /\ SubSeq(funcs[d].made, 1, Len(funcs[b].made)) = funcs[b].made

\* two different chains derived from a base of two steps, and the first of
\* them run twice after the second was made, calling its own last step
\* both times
C27_Witness ==
    /\ other # <<>> /\ other.recv = recv
    /\ pc = "returned" /\ other.pc = "returned"
    /\ Invoked(RunLocals) = Invoked(other)
    /\ \E b \in DOMAIN funcs : \E d \in DOMAIN funcs :
          /\ Len(funcs[b].made) = 2
          /\ Extends(recv, b) /\ Extends(d, b)
          /\ recv < d
          /\ funcs[d].made # funcs[recv].made
          /\ \E i \in DOMAIN calls : calls[i].s = Len(funcs[recv].made)

(***************************************************************************)
(* C32: captured panics occurring inside error handlers or defers are      *)
(* logged via the process-level default error handler and do not re-throw  *)
(* out of Run.                                                             *)
(***************************************************************************)
\* The calls of the error handler or of a deferred handler that panicked
LatePanics == {i \in DOMAIN calls : ~IsPreCall(calls[i]) /\ calls[i].res = "panic"}

\* The function Run calls next in the error phase or among the defers, if
\* any, can be given all its parameters
NextInjectable ==
    LET i  == IF pc = "errphase" THEN errHandler ELSE postSteps[dpos]
        in == Sig(StepAt(steps, i).fn).in
    IN \A n \in DOMAIN in : IsValid(data[in[n]])

C32_PanicKept ==
    \A i \in LatePanics :
        /\ \A j \in DOMAIN calls : j > i => IsPostCall(calls[j])
        /\ (i + 1 \in DOMAIN calls /\ calls[i].pv # PanicNil)
              => Received(i + 1, errorType) \subseteq {ErrorOf(i)}

C32_NoRethrow ==
    (pc \in {"errphase", "defers"} /\ NextInjectable) => pc' # "panicked"

NotFunctions == {"notAFunc", NilHandler}

HasReturnValues(h) == Sig(h).out # <<>>

\* no chain holds a handler that had to be rejected
OnlyGoodHandlers ==
    \A i \in DOMAIN steps :
        /\ steps[i].typ \in {"PRE", "ERR", "POST"} => steps[i].fn \notin NotFunctions
        /\ steps[i].typ \in {"ERR", "POST"} => ~HasReturnValues(steps[i].fn)

\* a call either is rejected and leaves the chain as it was, or returns a
\* chain that is the old one with steps added
C34_Step ==
    /\ rejected' => steps' = steps
    /\ ~rejected' => (Len(steps') >= Len(steps) /\ SubSeq(steps', 1, Len(steps)) = steps)

C34_BadHandlersRejected == []OnlyGoodHandlers /\ [][C34_Step]_vars

\* a chain of an error handler and a deferred handler, and the call made on
\* it last was rejected
C34_Witness ==
    /\ rejected
    /\ \E i \in DOMAIN steps : steps[i].typ = "ERR"
    /\ \E i \in DOMAIN steps : steps[i].typ = "POST"

(***************************************************************************)
(* C35: when Run returns an argument error (missing, extra or wrongly      *)
(* typed arguments), no function of the chain has been invoked: no PRE     *)
(* handler, no error handler and no deferred handler.                      *)
(***************************************************************************)
\* One argument per Arg declaration, each acceptable for its declared type
ArgsInOrder ==
    /\ Len(argValues) = Len(Declared)
    /\ \A n \in DOMAIN Declared :
          IF argValues[n] = "nil" THEN NilFits(Declared[n])
          ELSE Converts(argValues[n], Declared[n])

C35_NothingInvoked ==
    (RunFailed \/ (RunCalled /\ ~ArgsInOrder)) =>
        /\ calls = <<>>
        /\ stack = <<>>
        /\ pc = "returned"

\* Run returned an error for a chain with a Then handler and a deferred
\* handler, given one argument too many
C35_Witness ==
    /\ RunFailed
    /\ Len(argValues) = Len(Declared) + 1
    /\ \E i \in DOMAIN steps : steps[i].typ = "PRE"
    /\ \E i \in DOMAIN steps : steps[i].typ = "POST"

(***************************************************************************)
(* C36: if a deferred handler panics, Run still invokes every remaining    *)
(* collected deferred handler in order, and those that take an error       *)
(* parameter receive the PanicError of the panicking deferred handler,     *)
(* even when the normal phase had not failed.                              *)
(***************************************************************************)
\* The calls of deferred handlers that panicked
DeferPanics == {i \in DOMAIN calls : IsPostCall(calls[i]) /\ calls[i].res = "panic"}

\* The position in postSteps of the deferred handler called in calls[i]
PostPos(i) ==
    Len(postSteps) + 1 - Cardinality({m \in 1..i : IsPostCall(calls[m])})

\* The deferred handlers collected before the one called in calls[i] are
\* called after it, the last collected first
RestInvoked(i) ==
    /\ Len(calls) - i = PostPos(i) - 1
    /\ \A m \in 1..(PostPos(i) - 1) : calls[i + m].s = postSteps[PostPos(i) - m]

C36_DefersAfterPanic ==
    \A i \in DeferPanics :
        /\ pc \in {"returned", "panicked"} => RestInvoked(i)
        /\ i + 1 \in DOMAIN calls => Received(i + 1, errorType) \subseteq {ErrorOf(i)}

\* no Then handler failed, the deferred handler registered last panicked,
\* and the two registered before it were called after it, each receiving
\* its PanicError
C36_Witness ==
    /\ pc = "returned" /\ ret = "nil"
    /\ Len(postSteps) = 3 /\ Len(calls) = 3
    /\ 1 \in DeferPanics
    /\ RestInvoked(1)
    /\ Received(2, errorType) = {ErrorOf(1)}
    /\ Received(3, errorType) = {ErrorOf(1)}

(***************************************************************************)
(* C37: a Register call that returns an error leaves the tree unchanged:   *)
(* afterwards every path matches the same handler with the same parameter  *)
(* bindings as before the call.                                            *)
(***************************************************************************)
\* What a request for the path u can be answered with by the tree m
Answers(m, u) == {[h |-> o.h, params |-> o.params, panic |-> o.panic] : o \in Match(m, u, <<>>)}

C37_Step ==
    lastReg' = "err" =>
        /\ tree' = tree
        /\ \A u \in Paths : Answers(tree', u) = Answers(tree, u)
        /\ registered' = registered

C37_FailedRegisterKeepsTree == [][C37_Step]_vars

\* a pattern of three segments is registered, and the Register call made
\* last returned an error
C37_Witness ==
    /\ lastReg = "err"
    /\ Len(registered) = 1
    /\ Len(Split(Tail(registered[1]))) = 3
    /\ tree # EmptyMux

(***************************************************************************)
(* C38: Match is deterministic.                                            *)
(***************************************************************************)
\* C38: for the patterns registered and a path, Match has one answer: the
\* same handler, the same parameter bindings (and the same panic or none),
\* whatever the order in which matchSuffix ranges over a node's static
\* children
C38_MatchDeterministic == \A u \in Paths : Cardinality(Answers(tree, u)) = 1

\* two patterns are registered under one greedy parameter, with the static
\* children a and b, and for the path /f/b/a Match returns the handler of the
\* first pattern in one iteration order and that of the second in the other
C38_Witness ==
    /\ Len(registered) = 2
    /\ LET answers == Answers(tree, Str(<<<<"f">>, <<"b">>, <<"a">>>>)) IN
       /\ \A o \in answers : ~o.panic
       /\ {o.h : o \in answers} = {1, 2}

(***************************************************************************)
(* C39: a sub-router shadows the routes of its parent under its prefix.    *)
(***************************************************************************)
\* The routers reached from router q through sub-routers, q included
RECURSIVE Below(_)
Below(q) == {q} \cup UNION {Below(routers[q].subRouters[p]) : p \in DOMAIN routers[q].subRouters}

\* The routes whose pattern, taken from the root, covers the request path
CoversRequest(t) == PatternMatches(Split(Tail(t.pattern)), Split(Tail(request.uri)))

\* C39: when the path of a request served by the root router starts with the
\* prefix of one of its sub-routers, the route selected is a route of that
\* sub-router (or of a router below it), never a route of the root, and the
\* request is answered 404 when there is no route there at all
C39_SubRouterShadowsParent ==
    \A prefix \in DOMAIN routers[1].subRouters :
        (response.status # "none" /\ HasPrefix(request.uri, prefix)) =>
            LET under == Below(routers[1].subRouters[prefix]) IN
            /\ response.h > 0 => routes[response.h].router \in under
            /\ (\A i \in DOMAIN routes : routes[i].router \notin under)
                   => response.status = "404"

\* the root has a route whose pattern covers the path of the request, the
\* path starts with the prefix of a sub-router without routes, and the
\* request was answered 404
C39_Witness ==
    /\ response.status = "404"
    /\ \E prefix \in DOMAIN routers[1].subRouters : HasPrefix(request.uri, prefix)
    /\ \E i \in DOMAIN routes : routes[i].router = 1 /\ CoversRequest(routes[i])

(***************************************************************************)
(* C31: with TheUsual the log entry of a request is committed once, after  *)
(* everything else, with the status and size of the response.              *)
(***************************************************************************)
\* The Run of the route's chain for the request is over
Served31 == pc \in {"returned", "panicked"} /\ ret # "error"

\* C31: when a request was dispatched to a route of TheUsual, its log entry
\* was committed exactly once, by the last call of the Run (after all route
\* handlers, the error handler and the route's deferred handlers), and the
\* entry holds the status code and the size of the response as written
C31_CommittedOnceAtEnd ==
    (Served31 /\ Len(steps) > Len(TheUsual.base)) =>
        /\ Cardinality(Commits(steps, calls)) = 1
        /\ Commits(steps, calls) = {Len(calls)}
        /\ LogEntryOf(steps, calls, Len(calls))
               = LET w == Tracked(NewResponseWriter, WritesUpTo(steps, calls, Len(calls)))
                 IN [StatusCode |-> w.Code, ResponseSize |-> w.Size]

\* a request was dispatched to a route whose first handler wrote a response,
\* and the Run of its chain ended in a panic before the log entry was
\* committed
C31_Witness ==
    /\ pc = "panicked"
    /\ Len(steps) > Len(TheUsual.base)
    /\ Commits(steps, calls) = {}
    /\ \E k \in DOMAIN calls : steps[calls[k].s].fn = "sendMsg"

(***************************************************************************)
(* C33: the function generated by Code behaves like Run.                   *)
(***************************************************************************)
\* The handlers a Run called and the values it called them with, in order
RunTrace(cs) == [k \in DOMAIN cs |-> [s |-> cs[k].s, in |-> cs[k].in]]

\* The first call of the generated function, and the call after it, with
\* handlers that do what they did in the Run the call is compared with
GenFirst(args, cs) == GenInvoke(steps, OuterVars(steps), args, BehOf(cs))
GenSecond(args, cs) ==
    GenInvoke(steps, GenFirst(other.argValues, other.calls).outer, args, BehOf(cs))

\* C33: when Run was called on a chain with valid arguments and has returned,
\* the function generated by Code, called with the same arguments, has
\* called the same handlers (the error handler and the deferred handlers
\* included) with the same values in the same order; and so has its second
\* call, compared with a second Run
C33_CodeBehavesLikeRun ==
    (pc = "returned" /\ ret = "nil" /\ recv # 0) =>
        IF other = <<>> THEN GenFirst(argValues, calls).trace = RunTrace(calls)
        ELSE GenSecond(argValues, calls).trace = RunTrace(calls)

\* Run was called twice on a chain and no handler failed in either Run; the
\* generated function compiles, its first call makes the calls of the first
\* Run, and its second call hands a handler another value than the second
\* Run does
C33_Witness ==
    /\ pc = "returned" /\ ret = "nil" /\ recv # 0
    /\ other # <<>>
    /\ \A k \in DOMAIN calls : calls[k].res = "ok"
    /\ \A k \in DOMAIN other.calls : other.calls[k].res = "ok"
    /\ GenFirst(other.argValues, other.calls).result = "returned"
    /\ GenFirst(other.argValues, other.calls).trace = RunTrace(other.calls)
    /\ GenSecond(argValues, calls).result = "returned"
    /\ GenSecond(argValues, calls).trace # RunTrace(calls)
    /\ Len(GenSecond(argValues, calls).trace) = Len(calls)
====
